---- MODULE Spec2Model ----
(***************************************************************************)
(* Model of the indico-test backend: the stock-safe order placement        *)
(* (orderService.CreateOrder over the products/orders tables) and the      *)
(* settlement job engine (JobProcessor, jobService, jobRepository).        *)
(***************************************************************************)
EXTENDS Integers, Sequences, FiniteSets, TLC

(***************************************************************************)
(* Bounds of the model.                                                    *)
(***************************************************************************)
NumCalls == 2
MaxQty == 2
MaxStock == 2
NumJobs == 1
NumWorkers == 1
NumCancels == 1
QueueSize == 2
NumTxns == 1
BatchSize == 2
MaxTxns == 2
MaxDay == 1
NumRuns == 2
\* the transactions of the page one processBatch call is followed over
FanTxns == 5
\* the rows of the orders table ListOrders is called on
MaxListed == 3

Calls == 1..NumCalls
\* product ids that have a row in the products table
StoredProducts == {1}
\* product ids a request may name: the stored one and one without a row
RequestedProducts == {1, 2}
Prices == {3, 5}
\* each caller orders under its own buyer id (buyer_<n>)
BuyerID(c) == c

VARIABLES
    products,   \* committed rows of table products: id -> [stock, price, version]
    orders,     \* committed rows of table orders
    rowLock,    \* product id -> call whose transaction holds the row lock (0: free)
    call,       \* per CreateOrder call: position, request, transaction-local state
    lastGet,    \* per call: the response of the GetOrder that followed it
    initial,    \* the products table as seeded (never changes)
    listing,    \* the last ListOrders call: its arguments, its query and its result
    jobs,         \* rows of table jobs: job id -> row (status "" when there is none)
    phase,        \* per job id: how far its submission and its processing have come
    jobQueue,     \* jp.jobQueue: the buffered channel, as a sequence of job ids
    stop,         \* position of JobProcessor.Stop
    cancelMap,    \* jp.cancelMap: the job ids that have a cancel function stored
    ctxCancelled, \* per job id: its job context was cancelled through its cancel function
    proc,         \* per job id: position and locals of the worker that runs processJob on it
    waiting,      \* number of worker goroutines waiting at the select of worker()
    cancelPending, \* per job id: CancelJob requests between jobRepo.Cancel and the trigger
    lastCancel,   \* the result of the CancelJob request that returned last
    cancelled,    \* the job ids for which a CancelJob request has returned nil
    enqueued,     \* the job ids whose enqueue has completed and that no worker has
                  \* received yet, in the order in which their enqueues completed
    transactions, \* rows of table transactions, in the order of their id
    window,       \* the dates [from, to] the submitted settlement jobs carry as parameters
    batchSize,    \* jp.batchSize (cfg.BatchSize)
    settlements,  \* committed rows of table settlements
    csv,          \* per job id: the file /tmp/settlements/{job_id}.csv
    committed,    \* the job ids whose saveSettlements transaction has committed
    fan           \* one call of processBatch: its goroutines, the mutex and the map

ordVars == <<products, orders, rowLock, call, lastGet, initial, listing>>
jobVars == <<jobs, phase, jobQueue, stop, cancelMap, ctxCancelled, proc, waiting,
            cancelPending, lastCancel, cancelled, enqueued>>
setVars == <<transactions, window, batchSize, settlements, csv, committed, fan>>
vars == <<ordVars, jobVars, setVars>>

(***************************************************************************)
(* Orders: values                                                          *)
(***************************************************************************)
OrderStatusPending == "PENDING"
OrderStatusConfirmed == "CONFIRMED"

ErrNil == "nil"
ErrValidation == "VALIDATION_ERROR"
ErrProductNotFound == "PRODUCT_NOT_FOUND"
ErrOrderNotFound == "ORDER_NOT_FOUND"
ErrOutOfStock == "OUT_OF_STOCK"
ErrConcurrency == "CONCURRENCY_CONFLICT"
ErrCancelled == "context canceled"
ErrStorage == "storage error"

NoOrder == [id |-> 0, product_id |-> 0, buyer_id |-> 0, quantity |-> 0,
            status |-> "", total_cents |-> 0]
NoProduct == [stock |-> 0, price |-> 0, version |-> 0]
NoRequest == [product_id |-> 0, quantity |-> 0, buyer_id |-> 0]

IdleCall == [pc |-> "idle", req |-> NoRequest, product |-> NoProduct,
             order |-> NoOrder, txOrder |-> NoOrder, txProduct |-> NoProduct,
             wrote |-> FALSE, err |-> ErrNil, at |-> "", ret |-> ErrNil]

(***************************************************************************)
(* productRepository.UpdateStock: the conditional UPDATE and the follow-up *)
(* read that tells OutOfStock from a version conflict.                     *)
(***************************************************************************)
UpdateStockWhere_NoVersion(row, quantity, version) ==
    row.stock >= quantity

UpdateStockWhere(row, quantity, version) ==
    row.version = version /\ row.stock >= quantity

UpdateStockSet_NoDecrement(row, quantity) ==
    [row EXCEPT !.version = @ + 1]

UpdateStockSet_NoVersion(row, quantity) ==
    [row EXCEPT !.stock = @ - quantity]

UpdateStockSet(row, quantity) ==
    [row EXCEPT !.stock = @ - quantity, !.version = @ + 1]

UpdateStock(row, quantity, version) ==
    IF UpdateStockWhere(row, quantity, version) THEN ErrNil
    ELSE IF row.stock < quantity THEN ErrOutOfStock
    ELSE ErrConcurrency

(***************************************************************************)
(* DB.WithTx: commit iff the scope returned nil and Commit succeeded,      *)
(* otherwise roll back.                                                    *)
(***************************************************************************)
WithTxCommits_Always(err) == TRUE

WithTxCommits(err) == err = ErrNil

\* the error WithTx returns, as text: the error of fn as it is, the error of
\* Commit wrapped by fmt.Errorf("failed to commit transaction: %w", err); at is
\* where the transaction stood ("updated": fn has returned nil)
WithTxReturn_WrapScope(at, err) ==
    IF err = ErrNil THEN err ELSE "failed to commit transaction: " \o err

WithTxReturn(at, err) ==
    IF at = "updated" /\ err # ErrNil THEN "failed to commit transaction: " \o err
    ELSE err

\* the value a panicking scope function panics with
PanicValue == "runtime error"

\* a statement that locks a row waits until no other transaction holds its lock
RowLockFree(holder, c) == holder = 0 \/ holder = c

\* GetByIDForUpdate's SELECT carries FOR UPDATE
ForUpdate_Missing == FALSE

ForUpdate == TRUE

TotalCents_NoQuantity(price, quantity) == price

TotalCents(price, quantity) == price * quantity

\* the order object built by CreateOrder (uuid.New() is unique: the call's id)
NewOrder(c, req, product) ==
    [id |-> c, product_id |-> req.product_id, buyer_id |-> req.buyer_id,
     quantity |-> req.quantity, status |-> OrderStatusPending,
     total_cents |-> TotalCents(product.price, req.quantity)]

\* orderRepository.Create: the row inserted carries the order's fields as they
\* are at the time of the INSERT
OrderRow(order) == order

\* End of WithTx for call c whose record (after this step's local changes) is k:
\* commit applies the transaction's writes, rollback drops them; both release
\* the row locks of the transaction.
Finish(c, k, err) ==
    /\ IF WithTxCommits(err)
       THEN /\ products' = IF k.wrote
                           THEN [products EXCEPT ![k.req.product_id] = k.txProduct]
                           ELSE products
            /\ orders' = IF k.txOrder # NoOrder THEN orders \cup {k.txOrder} ELSE orders
       ELSE UNCHANGED <<products, orders>>
    /\ rowLock' = [p \in DOMAIN rowLock |-> IF rowLock[p] = c THEN 0 ELSE rowLock[p]]
    \* the transaction's working copies die with it; the caller gets (order, err)
    /\ call' = [call EXCEPT ![c] = [IdleCall EXCEPT !.pc = "done", !.req = k.req, !.err = err,
                                      !.at = k.pc, !.ret = WithTxReturn(k.pc, err),
                                      !.order = IF err = ErrNil THEN k.order ELSE NoOrder]]

(***************************************************************************)
(* orderService.CreateOrder, one action per storage round trip             *)
(***************************************************************************)
\* validation and BeginTx
BeginCreateOrder(c) ==
    /\ call[c].pc = "idle"
    /\ \E pid \in RequestedProducts, q \in 0..MaxQty :
          LET req == [product_id |-> pid, quantity |-> q, buyer_id |-> BuyerID(c)] IN
          IF q <= 0
          THEN call' = [call EXCEPT ![c] = [@ EXCEPT !.pc = "done", !.req = req,
                                                     !.err = ErrValidation, !.at = "idle"]]
          ELSE call' = [call EXCEPT ![c] = [@ EXCEPT !.pc = "tx", !.req = req]]
    /\ UNCHANGED <<products, orders, rowLock, lastGet, initial, listing, jobVars, setVars>>

\* productRepo.GetByIDForUpdate
GetByIDForUpdate(c) ==
    /\ call[c].pc = "tx"
    /\ LET pid == call[c].req.product_id IN
       IF pid \notin DOMAIN products
       THEN Finish(c, call[c], ErrProductNotFound)
       ELSE /\ ForUpdate => RowLockFree(rowLock[pid], c)
            /\ rowLock' = IF ForUpdate THEN [rowLock EXCEPT ![pid] = c] ELSE rowLock
            /\ call' = [call EXCEPT ![c] = [@ EXCEPT !.pc = "locked",
                                                       !.product = products[pid]]]
            /\ UNCHANGED <<products, orders>>
    /\ UNCHANGED <<lastGet, initial, listing, jobVars, setVars>>

\* stock check, total, orderRepo.Create
CheckAndInsert(c) ==
    /\ call[c].pc = "locked"
    /\ LET k == call[c] IN
       IF k.product.stock < k.req.quantity
       THEN Finish(c, k, ErrOutOfStock)
       ELSE LET order == NewOrder(c, k.req, k.product) IN
            /\ call' = [call EXCEPT ![c] = [k EXCEPT !.pc = "inserted", !.order = order,
                                                      !.txOrder = OrderRow(order)]]
            /\ UNCHANGED <<products, orders, rowLock>>
    /\ UNCHANGED <<lastGet, initial, listing, jobVars, setVars>>

\* productRepo.UpdateStock, then order.Status = CONFIRMED and return nil
DecrementStock(c) ==
    /\ call[c].pc = "inserted"
    /\ LET k == call[c]
           pid == k.req.product_id
           err == UpdateStock(products[pid], k.req.quantity, k.product.version) IN
       \* the UPDATE waits for the row lock of another transaction
       /\ RowLockFree(rowLock[pid], c)
       /\ IF err # ErrNil
          THEN Finish(c, k, err)
          ELSE /\ call' = [call EXCEPT ![c] =
                      [k EXCEPT !.pc = "updated", !.wrote = TRUE,
                                !.txProduct = UpdateStockSet(products[pid], k.req.quantity),
                                !.order = [k.order EXCEPT !.status = OrderStatusConfirmed]]]
               /\ rowLock' = [rowLock EXCEPT ![pid] = c]
               /\ UNCHANGED <<products, orders>>
    /\ UNCHANGED <<lastGet, initial, listing, jobVars, setVars>>

\* tx.Commit
CommitOrder(c) ==
    /\ call[c].pc = "updated"
    /\ Finish(c, call[c], ErrNil)
    /\ UNCHANGED <<lastGet, initial, listing, jobVars, setVars>>

\* the request's context is cancelled, or storage fails, at the next round trip
OrderFault(c) ==
    /\ call[c].pc \in {"tx", "locked", "inserted", "updated"}
    /\ \E e \in {ErrCancelled, ErrStorage} : Finish(c, call[c], e)
    /\ UNCHANGED <<lastGet, initial, listing, jobVars, setVars>>

(***************************************************************************)
(* orderRepository.GetByID / orderService.GetOrder                         *)
(***************************************************************************)
GetByID(id) ==
    IF \E o \in orders : o.id = id /\ o.product_id \in DOMAIN products
    THEN LET o == CHOOSE o \in orders : o.id = id IN
         [err |-> ErrNil, order |-> o, product |-> products[o.product_id]]
    ELSE [err |-> ErrOrderNotFound, order |-> NoOrder, product |-> NoProduct]

NoResponse == [err |-> "", order |-> NoOrder, product |-> NoProduct]

\* the caller of a successful CreateOrder fetches the order it was returned
GetOrder(c) ==
    /\ call[c].pc = "done"
    /\ call[c].err = ErrNil
    /\ lastGet[c] = NoResponse
    /\ lastGet' = [lastGet EXCEPT ![c] = GetByID(call[c].order.id)]
    /\ UNCHANGED <<products, orders, rowLock, call, initial, listing, jobVars, setVars>>

(***************************************************************************)
(* orderService.ListOrders / orderRepository.List                          *)
(***************************************************************************)
\* the largest limit ListOrders passes on, and the limit it uses otherwise
MaxListLimit == 100
DefaultListLimit == 10

NoListing == [pc |-> "idle"]

\* if limit <= 0 || limit > 100 { limit = 10 }
ListLimit(limit) ==
    IF limit <= 0 \/ limit > MaxListLimit THEN DefaultListLimit ELSE limit

\* if offset < 0 { offset = 0 }
ListOffset(offset) == IF offset < 0 THEN 0 ELSE offset

\* ORDER BY created_at DESC: the rows from the latest to the earliest
RECURSIVE ByCreatedAtDesc(_)
ByCreatedAtDesc(rows) ==
    IF rows = {} THEN <<>>
    ELSE LET latest == CHOOSE r \in rows : \A o \in rows : o.created_at <= r.created_at IN
         <<latest>> \o ByCreatedAtDesc(rows \ {latest})

\* orderRepository.List: ... ORDER BY created_at DESC LIMIT $1 OFFSET $2
List(rows, limit, offset) ==
    LET sorted == ByCreatedAtDesc(rows)
        last == IF offset + limit < Len(sorted) THEN offset + limit ELSE Len(sorted) IN
    SubSeq(sorted, offset + 1, last)

\* the limits and offsets ListOrders is called with
ListLimits == {-1, 0, 1, 2, DefaultListLimit, MaxListLimit, MaxListLimit + 1, MaxListLimit + 50}
ListOffsets == -1..MaxListed

\* orderService.ListOrders(ctx, limit, offset)
ListOrders ==
    \E limit \in ListLimits, offset \in ListOffsets :
        /\ listing' = [pc |-> "done", limit |-> limit, offset |-> offset,
                       queryLimit |-> ListLimit(limit), queryOffset |-> ListOffset(offset),
                       orders |-> List(orders, ListLimit(limit), ListOffset(offset))]
        /\ UNCHANGED <<products, orders, rowLock, call, lastGet, initial, jobVars, setVars>>

(***************************************************************************)
(* Job engine: values                                                      *)
(***************************************************************************)
\* the job ids of a behaviour: the ids its initial state provides for
JobIDs == DOMAIN jobs

JobStatusQueued == "QUEUED"
JobStatusRunning == "RUNNING"
JobStatusCompleted == "COMPLETED"
JobStatusFailed == "FAILED"
JobStatusCancelled == "CANCELLED"
TerminalStatuses == {JobStatusCompleted, JobStatusFailed, JobStatusCancelled}

ErrJobAlreadyCancelled == "JOB_ALREADY_CANCELLED"
ErrJobNotFound == "JOB_NOT_FOUND"
ErrJobWasCancelled == "job was cancelled"
ErrQueueFull == "job queue is full"

\* a job id without a row in table jobs
NoJob == [status |-> "", progress |-> 0, processed |-> 0, total |-> 0,
          result |-> FALSE, error |-> ""]

\* the row jobService.CreateSettlementJob inserts
NewJob == [status |-> JobStatusQueued, progress |-> 0, processed |-> 0, total |-> 0,
           result |-> FALSE, error |-> ""]

\* the locals of processJob/processSettlementJob for a job no worker is running
NoProc == [pc |-> "none", err |-> ErrNil, totalCount |-> 0, processed |-> 0, offset |-> 0,
           settlements |-> {}, upserted |-> {}]

\* no CancelJob request has returned yet
NoCancel == ""

\* The worker goroutines are interchangeable (workerID only labels log lines): the
\* pool is kept as the number of workers waiting at the select (waiting), per job in
\* processJob the position of the worker running it (proc), and the rest have returned.
Processing == {j \in JobIDs : proc[j].pc # "none"}
\* worker without its defer jp.wg.Done(): jp.wg counts the returns of no worker
ExitedWorkers_MissingDone == Cardinality({})

ExitedWorkers == NumWorkers - waiting - Cardinality(Processing)

RECURSIVE SumPending(_)
SumPending(S) ==
    IF S = {} THEN 0
    ELSE LET j == CHOOSE x \in S : TRUE IN cancelPending[j] + SumPending(S \ {j})

\* jp.ctx is cancelled by Stop; the queue is closed by Stop's next statement
EngineCancelled == stop # "running"
QueueClosed == stop \in {"closed", "stopped"}

\* the job context of job j (derived from jp.ctx) is done
CtxDone_JobOnly(j) == ctxCancelled[j]

CtxDone(j) == EngineCancelled \/ ctxCancelled[j]

\* jobRepository.Cancel: UPDATE ... WHERE id = $2 AND status IN (QUEUED, RUNNING)
CancelWhere(status) == status \in {JobStatusQueued, JobStatusRunning}

\* where processJob goes on when MarkStarted returned an error: it returns
MarkStartedErrorNext_NoReturn == "count"

MarkStartedErrorNext == "cleanup"

\* progress DECIMAL(5, 2): the column holds magnitudes below 1000.00, counted
\* here in hundredths of a percent
DecimalLimit == 100000

\* progress = float64(processed) / float64(totalCount) * 100, rounded by the
\* column to hundredths of a percent; with totalCount = 0 the float64 division
\* gives +Inf or NaN, a value beyond the column
Progress(processed, totalCount) ==
    IF totalCount = 0 THEN DecimalLimit
    ELSE (processed * 10000 * 2 + totalCount) \div (2 * totalCount)

\* the UPDATE of the progress column succeeds when the value fits the column
ProgressStorable(progress) == progress < DecimalLimit

(***************************************************************************)
(* Settlement: transactions, the window, aggregation, upsert and CSV       *)
(***************************************************************************)
TransactionStatusPending == "PENDING"
TransactionStatusCompleted == "COMPLETED"
TransactionStatusFailed == "FAILED"

\* merchant ids, as numbers so that the CSV sort can compare them
Merchants == {1, 2}
\* calendar dates (YYYY-MM-DD), numbered
Days == 0..MaxDay
\* time is counted in half days: a date's midnight and its noon
HalfDaysPerDay == 2
Times == 0..(HalfDaysPerDay * MaxDay + 1)
\* time.Parse("2006-01-02", d): the midnight of date d
Midnight(d) == HalfDaysPerDay * d
\* t.Truncate(24 * time.Hour): the start of t's day
Truncate24h(t) == t - (t % HalfDaysPerDay)

\* amount_cents and fee_cents of the transaction with id i
AmountOf(i) == 100 * i
FeeOf(i) == i

\* from, and to = to.AddDate(0, 0, 1): the bounds processSettlementJob passes on
WindowFrom == Midnight(window.from)

WindowTo_Exclusive == Midnight(window.to)

WindowTo == Midnight(window.to) + HalfDaysPerDay

\* WHERE paid_at >= $1 AND paid_at < $2 AND status = 'COMPLETED'
TxnWhere(t) ==
    /\ t.paid_at >= WindowFrom
    /\ t.paid_at < WindowTo
    /\ t.status = TransactionStatusCompleted

\* the rows the WHERE clause selects, ORDER BY id
Matching == SelectSeq(transactions, TxnWhere)

\* the page read with OFFSET offset + 1
GetBatchRows_OffsetPlusOne(offset, limit) ==
    LET n == Len(Matching)
        last == IF offset + 1 + limit < n THEN offset + 1 + limit ELSE n IN
    SubSeq(Matching, offset + 2, last)

\* transactionRepository.GetBatch: LIMIT limit OFFSET offset
GetBatchRows(offset, limit) ==
    LET n == Len(Matching)
        last == IF offset + limit < n THEN offset + limit ELSE n IN
    SubSeq(Matching, offset + 1, last)

\* processBatch, one transaction: the entry of its merchant and day is created
\* when missing and the amounts are added to it
AggregateTx_Replace(map, t) ==
    LET date == Truncate24h(t.paid_at) IN
    {s \in map : ~(s.merchant_id = t.merchant_id /\ s.date = date)} \cup
        {[merchant_id |-> t.merchant_id, date |-> date, gross_cents |-> t.amount_cents,
          fee_cents |-> t.fee_cents, net_cents |-> t.amount_cents - t.fee_cents,
          txn_count |-> 1]}

AggregateTx(map, t) ==
    LET date == Truncate24h(t.paid_at)
        hit == {s \in map : s.merchant_id = t.merchant_id /\ s.date = date}
        old == IF hit = {}
               THEN [merchant_id |-> t.merchant_id, date |-> date, gross_cents |-> 0,
                     fee_cents |-> 0, net_cents |-> 0, txn_count |-> 0]
               ELSE CHOOSE s \in hit : TRUE IN
    (map \ hit) \cup
        {[old EXCEPT !.gross_cents = @ + t.amount_cents,
                     !.fee_cents = @ + t.fee_cents,
                     !.net_cents = @ + (t.amount_cents - t.fee_cents),
                     !.txn_count = @ + 1]}

\* processBatch: the goroutines add under the mutex, in any order; the sums do not
\* depend on the order, so the batch is folded in the order of the page
RECURSIVE ProcessBatch(_, _)
ProcessBatch(map, batch) ==
    IF batch = <<>> THEN map
    ELSE ProcessBatch(AggregateTx(map, Head(batch)), Tail(batch))

\* g.SetLimit(4): the goroutines of one processBatch that run at a time
FanLimit == 4

\* no call of processBatch is followed goroutine by goroutine
NoFanOut == [phase |-> "none"]

\* settlements[key] of the transaction's merchant and day
EntryOf(map, t) ==
    {s \in map : s.merchant_id = t.merchant_id /\ s.date = Truncate24h(t.paid_at)}

\* the goroutines of the group that were started and have not returned
FanRunning == {i \in DOMAIN fan.pc : fan.pc[i] \in {"run", "locked", "found"}}

\* mu.Lock() returns when no goroutine holds the mutex
MuFree_NoMutex(holder) == holder = holder

MuFree(holder) == holder = 0

\* g.Go(func): the loop starts the goroutine of the next transaction, blocking
\* while FanLimit goroutines run
FanGo ==
    /\ fan.phase = "fanout"
    /\ fan.next <= Len(fan.batch)
    /\ Cardinality(FanRunning) < FanLimit
    /\ fan' = [fan EXCEPT !.pc[fan.next] = "run",
                          !.next = @ + 1,
                          !.peak = IF Cardinality(FanRunning) + 1 > @
                                   THEN Cardinality(FanRunning) + 1 ELSE @]
    /\ UNCHANGED <<jobVars, ordVars, transactions, window, batchSize, settlements, csv, committed>>

\* mu.Lock()
FanLock(i) ==
    /\ fan.phase = "fanout"
    /\ fan.pc[i] = "run"
    /\ MuFree(fan.mu)
    /\ fan' = [fan EXCEPT !.pc[i] = "locked", !.mu = i]
    /\ UNCHANGED <<jobVars, ordVars, transactions, window, batchSize, settlements, csv, committed>>

\* settlement, exists := settlements[key]; a missing entry is created with zero
\* sums and stored
FanLookup(i) ==
    /\ fan.phase = "fanout"
    /\ fan.pc[i] = "locked"
    /\ LET t == fan.batch[i]
           hit == EntryOf(fan.map, t)
           entry == IF hit = {}
                    THEN [merchant_id |-> t.merchant_id, date |-> Truncate24h(t.paid_at),
                          gross_cents |-> 0, fee_cents |-> 0, net_cents |-> 0,
                          txn_count |-> 0]
                    ELSE CHOOSE s \in hit : TRUE IN
       fan' = [fan EXCEPT !.pc[i] = "found",
                          !.found[i] = entry,
                          !.map = (@ \ hit) \cup {entry}]
    /\ UNCHANGED <<jobVars, ordVars, transactions, window, batchSize, settlements, csv, committed>>

\* the four additions to the entry, mu.Unlock() and return nil
FanAdd(i) ==
    /\ fan.phase = "fanout"
    /\ fan.pc[i] = "found"
    /\ LET t == fan.batch[i]
           old == fan.found[i] IN
       fan' = [fan EXCEPT !.pc[i] = "done",
                          !.mu = 0,
                          !.map = (@ \ EntryOf(@, t)) \cup
                                    {[old EXCEPT !.gross_cents = @ + t.amount_cents,
                                                 !.fee_cents = @ + t.fee_cents,
                                                 !.net_cents = @ + (t.amount_cents - t.fee_cents),
                                                 !.txn_count = @ + 1]}]
    /\ UNCHANGED <<jobVars, ordVars, transactions, window, batchSize, settlements, csv, committed>>

\* return g.Wait(): every goroutine was started and has returned
FanWait ==
    /\ fan.phase = "fanout"
    /\ fan.next > Len(fan.batch)
    /\ FanRunning = {}
    /\ fan' = [fan EXCEPT !.phase = "returned"]
    /\ UNCHANGED <<jobVars, ordVars, transactions, window, batchSize, settlements, csv, committed>>

\* settlementRepository.Upsert: INSERT ... ON CONFLICT (merchant_id, date) DO UPDATE
\* SET gross_cents = settlements.gross_cents + EXCLUDED.gross_cents, ...
UpsertRow_Overwrite(table, s) ==
    {r \in table : ~(r.merchant_id = s.merchant_id /\ r.date = s.date)} \cup {s}

UpsertRow(table, s) ==
    LET hit == {r \in table : r.merchant_id = s.merchant_id /\ r.date = s.date} IN
    IF hit = {} THEN table \cup {s}
    ELSE (table \ hit) \cup
         {[r EXCEPT !.gross_cents = @ + s.gross_cents, !.fee_cents = @ + s.fee_cents,
                    !.net_cents = @ + s.net_cents, !.txn_count = @ + s.txn_count] : r \in hit}

\* the upserts of one transaction, applied to the table when it commits
RECURSIVE UpsertAll(_, _)
UpsertAll(table, rows) ==
    IF rows = {} THEN table
    ELSE LET s == CHOOSE x \in rows : TRUE IN UpsertAll(UpsertRow(table, s), rows \ {s})

\* createSettlementCSV: sort.Slice by merchant id, then by date
RowBefore(a, b) ==
    IF a.merchant_id # b.merchant_id THEN a.merchant_id < b.merchant_id
    ELSE a.date < b.date

RECURSIVE SortRows(_)
SortRows(S) ==
    IF S = {} THEN <<>>
    ELSE LET first == CHOOSE a \in S : \A b \in S \ {a} : RowBefore(a, b) IN
         <<first>> \o SortRows(S \ {first})

\* the file {job_id}.csv: absent, or the header line and the records
NoFile == [exists |-> FALSE, header |-> FALSE, records |-> <<>>]
CsvFile(map) == [exists |-> TRUE, header |-> TRUE, records |-> SortRows(map)]

(***************************************************************************)
(* jobService.CreateSettlementJob and JobProcessor.QueueJob                *)
(***************************************************************************)
\* jobRepo.Create: the job row is written with status QUEUED
SubmitCreate(j) ==
    /\ phase[j] = "none"
    \* job ids (uuid.New()) number the rows in the order of their creation
    /\ \A i \in JobIDs : i < j => phase[i] # "none"
    /\ jobs' = [jobs EXCEPT ![j] = NewJob]
    /\ phase' = [phase EXCEPT ![j] = "created"]
    /\ UNCHANGED <<jobQueue, stop, cancelMap, ctxCancelled, proc, waiting, cancelPending, lastCancel, cancelled, enqueued, ordVars, setVars>>

\* the send case of QueueJob's select is ready: the channel buffer
\* (make(chan *models.Job, cfg.QueueSize)) has a free slot
QueueHasRoom_Unbounded(q) == TRUE

QueueHasRoom(q) == Len(q) < QueueSize

\* jp.jobQueue <- job: the channel buffer takes the job behind those it holds
Send_Front(q, j) == <<j>> \o q

Send(q, j) == Append(q, j)

\* CreateSettlementJob when QueueJob returned an error: the error is logged and
\* returned, the row created before stays as it is
QueueErrorStatus_MarkFailed(status) == JobStatusFailed

QueueErrorStatus(status) == status

\* QueueJob: a select of the send, the request context and default
QueueJob(j) ==
    /\ phase[j] = "created"
    /\ \/ /\ QueueClosed                      \* send on a closed channel panics
          /\ phase' = [phase EXCEPT ![j] = "panicked"]
          /\ UNCHANGED <<jobs, jobQueue, enqueued>>
       \/ /\ ~QueueClosed
          /\ QueueHasRoom(jobQueue)
          /\ jobQueue' = Send(jobQueue, j)
          /\ phase' = [phase EXCEPT ![j] = "queued"]
          /\ enqueued' = Append(enqueued, j)
          /\ UNCHANGED jobs
       \/ /\ ~QueueClosed
          /\ ~QueueHasRoom(jobQueue)          \* default:
          /\ phase' = [phase EXCEPT ![j] = "full"]
          /\ jobs' = [jobs EXCEPT ![j].status = QueueErrorStatus(@)]
          /\ UNCHANGED <<jobQueue, enqueued>>
       \/ /\ phase' = [phase EXCEPT ![j] = "ctxerr"]   \* case <-ctx.Done()
          /\ jobs' = [jobs EXCEPT ![j].status = QueueErrorStatus(@)]
          /\ UNCHANGED <<jobQueue, enqueued>>
    /\ UNCHANGED <<stop, cancelMap, ctxCancelled, proc, waiting, cancelPending, lastCancel, cancelled, ordVars, setVars>>

(***************************************************************************)
(* JobProcessor.worker and processJob                                      *)
(***************************************************************************)
\* job, ok := <-jp.jobQueue: the receive takes the first value out of the channel
Receive_Peek(q) == q

Receive(q) == Tail(q)

\* the receive with processJob started in a goroutine of its own
\* (go jp.processJob(job, workerID)): the worker stays at the select
Dequeue_Spawn ==
    /\ waiting > 0
    /\ jobQueue # <<>>
    /\ proc' = [proc EXCEPT ![Head(jobQueue)] = [NoProc EXCEPT !.pc = "store"]]
    /\ jobQueue' = Receive(jobQueue)
    /\ phase' = [phase EXCEPT ![Head(jobQueue)] = "taken"]
    /\ enqueued' = SelectSeq(enqueued, LAMBDA x : x # Head(jobQueue))
    /\ UNCHANGED <<jobs, stop, cancelMap, ctxCancelled, waiting, cancelPending, lastCancel, cancelled, ordVars, setVars>>

\* case job, ok := <-jp.jobQueue (ok): a waiting worker enters processJob
Dequeue ==
    /\ waiting > 0
    /\ jobQueue # <<>>
    /\ proc' = [proc EXCEPT ![Head(jobQueue)] = [NoProc EXCEPT !.pc = "store"]]
    /\ waiting' = waiting - 1
    /\ jobQueue' = Receive(jobQueue)
    /\ phase' = [phase EXCEPT ![Head(jobQueue)] = "taken"]
    /\ enqueued' = SelectSeq(enqueued, LAMBDA x : x # Head(jobQueue))
    /\ UNCHANGED <<jobs, stop, cancelMap, ctxCancelled, cancelPending, lastCancel, cancelled, ordVars, setVars>>

\* case <-jp.ctx.Done(), or the queue is closed and drained: a waiting worker returns
WorkerExit ==
    /\ waiting > 0
    /\ EngineCancelled \/ (QueueClosed /\ jobQueue = <<>>)
    /\ waiting' = waiting - 1
    /\ UNCHANGED <<jobs, phase, jobQueue, stop, cancelMap, ctxCancelled, proc, cancelPending, lastCancel, cancelled, enqueued, ordVars, setVars>>

\* jobCtx, jobCancel := context.WithCancel(jp.ctx); jp.cancelMap.Store(job.ID, jobCancel)
StoreHandle(j) ==
    /\ proc[j].pc = "store"
    /\ cancelMap' = cancelMap \cup {j}
    /\ proc' = [proc EXCEPT ![j].pc = "markStarted"]
    /\ UNCHANGED <<jobs, phase, jobQueue, stop, ctxCancelled, waiting, cancelPending, lastCancel, cancelled, enqueued, ordVars, setVars>>

\* jobRepo.MarkStarted(jobCtx, job.ID): UPDATE jobs SET status = RUNNING WHERE id = $2
MarkStarted(j) ==
    /\ proc[j].pc = "markStarted"
    /\ IF CtxDone(j)
       THEN /\ proc' = [proc EXCEPT ![j].pc = MarkStartedErrorNext]
            /\ UNCHANGED jobs
       ELSE /\ jobs' = [jobs EXCEPT ![j].status = JobStatusRunning]
            /\ proc' = [proc EXCEPT ![j].pc = "count"]
    /\ UNCHANGED <<phase, jobQueue, stop, cancelMap, ctxCancelled, waiting, cancelPending, lastCancel, cancelled, enqueued, ordVars, setVars>>

\* MarkStarted fails on a storage error
MarkStartedFault(j) ==
    /\ proc[j].pc = "markStarted"
    /\ proc' = [proc EXCEPT ![j].pc = MarkStartedErrorNext]
    /\ UNCHANGED <<jobs, phase, jobQueue, stop, cancelMap, ctxCancelled, waiting, cancelPending, lastCancel, cancelled, enqueued, ordVars, setVars>>

\* processSettlementJob: txRepo.GetTotalCount
GetTotalCount(j) ==
    /\ proc[j].pc = "count"
    /\ IF CtxDone(j)
       THEN proc' = [proc EXCEPT ![j].pc = "failed", ![j].err = ErrCancelled]
       ELSE proc' = [proc EXCEPT ![j].pc = "progress0", ![j].totalCount = Len(Matching)]
    /\ UNCHANGED <<jobs, phase, jobQueue, stop, cancelMap, ctxCancelled, waiting, cancelPending, lastCancel, cancelled, enqueued, ordVars, setVars>>

\* jobRepo.UpdateProgress(ctx, job.ID, 0, 0); its error is only logged
UpdateProgress0(j) ==
    /\ proc[j].pc = "progress0"
    /\ jobs' = IF CtxDone(j) THEN jobs
               ELSE [jobs EXCEPT ![j].progress = 0, ![j].processed = 0]
    /\ proc' = [proc EXCEPT ![j].pc = "loop"]
    /\ UNCHANGED <<phase, jobQueue, stop, cancelMap, ctxCancelled, waiting, cancelPending, lastCancel, cancelled, enqueued, ordVars, setVars>>

\* select { case <-ctx.Done(): return ctx.Err(); default: }
LoopCheckCtx(j) ==
    /\ proc[j].pc = "loop"
    /\ IF CtxDone(j)
       THEN proc' = [proc EXCEPT ![j].pc = "failed", ![j].err = ErrCancelled]
       ELSE proc' = [proc EXCEPT ![j].pc = "isCancelled"]
    /\ UNCHANGED <<jobs, phase, jobQueue, stop, cancelMap, ctxCancelled, waiting, cancelPending, lastCancel, cancelled, enqueued, ordVars, setVars>>

\* jobRepo.IsCancelled: an error is logged and the loop goes on
IsCancelled(j) ==
    /\ proc[j].pc = "isCancelled"
    /\ IF ~CtxDone(j) /\ jobs[j].status = JobStatusCancelled
       THEN proc' = [proc EXCEPT ![j].pc = "failed", ![j].err = ErrJobWasCancelled]
       ELSE proc' = [proc EXCEPT ![j].pc = "getBatch"]
    /\ UNCHANGED <<jobs, phase, jobQueue, stop, cancelMap, ctxCancelled, waiting, cancelPending, lastCancel, cancelled, enqueued, ordVars, setVars>>

\* txRepo.GetBatch, the empty-page test, processBatch, processed and offset
GetBatch(j) ==
    /\ proc[j].pc = "getBatch"
    /\ LET k == proc[j]
           page == GetBatchRows(k.offset, batchSize) IN
       IF CtxDone(j)
       THEN proc' = [proc EXCEPT ![j].pc = "failed", ![j].err = ErrCancelled]
       ELSE IF Len(page) = 0
       THEN proc' = [proc EXCEPT ![j].pc = "save"]
       ELSE proc' = [proc EXCEPT ![j].pc = "progress",
                                 ![j].settlements = ProcessBatch(k.settlements, page),
                                 ![j].processed = k.processed + Len(page),
                                 ![j].offset = k.offset + batchSize]
    /\ UNCHANGED <<jobs, phase, jobQueue, stop, cancelMap, ctxCancelled, waiting, cancelPending, lastCancel, cancelled, enqueued, ordVars, setVars>>

\* jobRepo.UpdateProgress after a batch; its error is only logged
UpdateProgress(j) ==
    /\ proc[j].pc = "progress"
    /\ LET k == proc[j] IN
       jobs' = IF CtxDone(j) \/ ~ProgressStorable(Progress(k.processed, k.totalCount))
               THEN jobs
               ELSE [jobs EXCEPT ![j].progress = Progress(k.processed, k.totalCount),
                                 ![j].processed = k.processed]
    /\ proc' = [proc EXCEPT ![j].pc = "loop"]
    /\ UNCHANGED <<phase, jobQueue, stop, cancelMap, ctxCancelled, waiting, cancelPending, lastCancel, cancelled, enqueued, ordVars, setVars>>

\* where processSettlementJob goes on after saveSettlements returned err: to the
\* CSV when err is nil, else it returns the error
SaveSettlementsNext_IgnoreError(err) == "csv"

SaveSettlementsNext(err) == IF err = ErrNil THEN "csv" ELSE "failed"

\* saveSettlements: jp.db.WithTx begins the transaction
SaveSettlements(j) ==
    /\ proc[j].pc = "save"
    /\ IF CtxDone(j)
       THEN proc' = [proc EXCEPT ![j].pc = SaveSettlementsNext(ErrCancelled),
                                 ![j].err = ErrCancelled]
       ELSE proc' = [proc EXCEPT ![j].pc = "upsert", ![j].upserted = {}]
    /\ UNCHANGED <<jobs, phase, jobQueue, stop, cancelMap, ctxCancelled, waiting, cancelPending, lastCancel, cancelled, enqueued, ordVars, setVars>>

\* WithTx ends the transaction of saveSettlements with the error of fn or of
\* Commit: the upserts of the transaction reach the table together or not at all
\* (additions to a row commute, so the order in which concurrent transactions
\* lock a row does not show)
EndSaveTx(j, err) ==
    /\ settlements' = IF WithTxCommits(err) THEN UpsertAll(settlements, proc[j].upserted)
                      ELSE settlements
    /\ committed' = IF WithTxCommits(err) THEN committed \cup {j} ELSE committed
    /\ proc' = [proc EXCEPT ![j].pc = SaveSettlementsNext(err),
                            ![j].err = err,
                            ![j].upserted = {}]
    /\ UNCHANGED <<transactions, window, batchSize, csv, fan>>

\* one round of the loop over the map (Go ranges over it in any order):
\* settleRepo.Upsert inside the transaction; its error ends the transaction
Upsert(j) ==
    /\ proc[j].pc = "upsert"
    /\ \E s \in proc[j].settlements \ proc[j].upserted :
          IF CtxDone(j)
          THEN EndSaveTx(j, ErrCancelled)
          ELSE /\ proc' = [proc EXCEPT ![j].upserted = @ \cup {s}]
               /\ UNCHANGED setVars
    /\ UNCHANGED <<jobs, phase, jobQueue, stop, cancelMap, ctxCancelled, waiting, cancelPending, lastCancel, cancelled, enqueued, ordVars>>

\* settleRepo.Upsert or Commit fails on a storage error
UpsertFault(j) ==
    /\ proc[j].pc = "upsert"
    /\ EndSaveTx(j, ErrStorage)
    /\ UNCHANGED <<jobs, phase, jobQueue, stop, cancelMap, ctxCancelled, waiting, cancelPending, lastCancel, cancelled, enqueued, ordVars>>

\* the loop is over, fn returns nil and WithTx commits
CommitSettlements(j) ==
    /\ proc[j].pc = "upsert"
    /\ proc[j].upserted = proc[j].settlements
    /\ EndSaveTx(j, IF CtxDone(j) THEN ErrCancelled ELSE ErrNil)
    /\ UNCHANGED <<jobs, phase, jobQueue, stop, cancelMap, ctxCancelled, waiting, cancelPending, lastCancel, cancelled, enqueued, ordVars>>

\* os.MkdirAll and createSettlementCSV (no context): the file is written
CreateCSV(j) ==
    /\ proc[j].pc = "csv"
    /\ csv' = [csv EXCEPT ![j] = CsvFile(proc[j].settlements)]
    /\ proc' = [proc EXCEPT ![j].pc = "result"]
    /\ UNCHANGED <<transactions, window, batchSize, settlements, committed, fan>>
    /\ UNCHANGED <<jobs, phase, jobQueue, stop, cancelMap, ctxCancelled, waiting, cancelPending, lastCancel, cancelled, enqueued, ordVars>>

\* where processSettlementJob goes on when UpdateResult returned an error: it
\* returns the error
UpdateResultErrorNext_OnlyLogged == "succeeded"

UpdateResultErrorNext == "failed"

\* jobRepo.UpdateResult, then return nil
UpdateResult(j) ==
    /\ proc[j].pc = "result"
    /\ IF CtxDone(j)
       THEN /\ proc' = [proc EXCEPT ![j].pc = UpdateResultErrorNext, ![j].err = ErrCancelled]
            /\ UNCHANGED jobs
       ELSE /\ jobs' = [jobs EXCEPT ![j].result = TRUE]
            /\ proc' = [proc EXCEPT ![j].pc = "succeeded"]
    /\ UNCHANGED <<phase, jobQueue, stop, cancelMap, ctxCancelled, waiting, cancelPending, lastCancel, cancelled, enqueued, ordVars, setVars>>

\* a storage or filesystem error in processSettlementJob
AggregatorFault(j) ==
    /\ proc[j].pc \in {"count", "getBatch", "save", "csv"}
    /\ proc' = [proc EXCEPT ![j].pc = "failed", ![j].err = ErrStorage]
    /\ UNCHANGED <<jobs, phase, jobQueue, stop, cancelMap, ctxCancelled, waiting, cancelPending, lastCancel, cancelled, enqueued, ordVars, setVars>>

\* jobRepo.UpdateResult fails on a storage error
UpdateResultFault(j) ==
    /\ proc[j].pc = "result"
    /\ proc' = [proc EXCEPT ![j].pc = UpdateResultErrorNext, ![j].err = ErrStorage]
    /\ UNCHANGED <<jobs, phase, jobQueue, stop, cancelMap, ctxCancelled, waiting, cancelPending, lastCancel, cancelled, enqueued, ordVars, setVars>>

\* processJob, err == nil: jobRepo.MarkCompleted(jobCtx, job.ID); its error is only logged
MarkCompleted(j) ==
    /\ proc[j].pc = "succeeded"
    /\ jobs' = IF CtxDone(j) THEN jobs ELSE [jobs EXCEPT ![j].status = JobStatusCompleted]
    /\ proc' = [proc EXCEPT ![j].pc = "cleanup"]
    /\ UNCHANGED <<phase, jobQueue, stop, cancelMap, ctxCancelled, waiting, cancelPending, lastCancel, cancelled, enqueued, ordVars, setVars>>

\* processJob, err != nil: jobRepo.UpdateStatus(jobCtx, job.ID, FAILED); its error is only logged
UpdateStatusFailed(j) ==
    /\ proc[j].pc = "failed"
    /\ jobs' = IF CtxDone(j) THEN jobs ELSE [jobs EXCEPT ![j].status = JobStatusFailed]
    /\ proc' = [proc EXCEPT ![j].pc = "updateError"]
    /\ UNCHANGED <<phase, jobQueue, stop, cancelMap, ctxCancelled, waiting, cancelPending, lastCancel, cancelled, enqueued, ordVars, setVars>>

\* jobRepo.UpdateError(jobCtx, job.ID, err.Error()); its error is only logged
UpdateError(j) ==
    /\ proc[j].pc = "updateError"
    /\ jobs' = IF CtxDone(j) THEN jobs ELSE [jobs EXCEPT ![j].error = proc[j].err]
    /\ proc' = [proc EXCEPT ![j].pc = "cleanup"]
    /\ UNCHANGED <<phase, jobQueue, stop, cancelMap, ctxCancelled, waiting, cancelPending, lastCancel, cancelled, enqueued, ordVars, setVars>>

\* processJob without the deferred jp.cancelMap.Delete(job.ID)
Cleanup_KeepHandle(j) ==
    /\ proc[j].pc = "cleanup"
    /\ UNCHANGED cancelMap
    /\ ctxCancelled' = [ctxCancelled EXCEPT ![j] = TRUE]
    /\ phase' = [phase EXCEPT ![j] = "processed"]
    /\ proc' = [proc EXCEPT ![j] = NoProc]
    /\ waiting' = waiting + 1
    /\ UNCHANGED <<jobs, jobQueue, stop, cancelPending, lastCancel, cancelled, enqueued, ordVars, setVars>>

\* the deferred jp.cancelMap.Delete(job.ID); jobCancel(), and back to the select
Cleanup(j) ==
    /\ proc[j].pc = "cleanup"
    /\ cancelMap' = cancelMap \ {j}
    /\ ctxCancelled' = [ctxCancelled EXCEPT ![j] = TRUE]
    /\ phase' = [phase EXCEPT ![j] = "processed"]
    /\ proc' = [proc EXCEPT ![j] = NoProc]
    /\ waiting' = waiting + 1
    /\ UNCHANGED <<jobs, jobQueue, stop, cancelPending, lastCancel, cancelled, enqueued, ordVars, setVars>>

(***************************************************************************)
(* jobService.CancelJob: jobRepo.Cancel, then JobProcessor.CancelJob       *)
(***************************************************************************)
\* jobRepo.Cancel: if rowsAffected == 0 { return errors.ErrJobAlreadyCancelled }
ZeroRowsError_NotFound == ErrJobNotFound

ZeroRowsError == ErrJobAlreadyCancelled

\* jobRepo.Cancel. The callers are interchangeable: cancelPending[j] counts the
\* requests on job j that are between the status update and the handle trigger, at
\* most NumCancels requests are in flight, lastCancel is the last request's return.
CancelDB(j) ==
    /\ SumPending(JobIDs) < NumCancels
    /\ IF CancelWhere(jobs[j].status)
       THEN /\ jobs' = [jobs EXCEPT ![j].status = JobStatusCancelled]
            /\ cancelPending' = [cancelPending EXCEPT ![j] = @ + 1]
            /\ UNCHANGED lastCancel
       ELSE /\ lastCancel' = ZeroRowsError
            /\ UNCHANGED <<jobs, cancelPending>>
    /\ UNCHANGED <<phase, jobQueue, stop, cancelMap, ctxCancelled, proc, waiting, cancelled, enqueued, ordVars, setVars>>

\* jp.cancelMap.Load(jobID) and cancel(); CancelJob returns nil
CancelTrigger(j) ==
    /\ cancelPending[j] > 0
    /\ ctxCancelled' = IF j \in cancelMap THEN [ctxCancelled EXCEPT ![j] = TRUE]
                       ELSE ctxCancelled
    /\ cancelled' = cancelled \cup {j}
    /\ cancelPending' = [cancelPending EXCEPT ![j] = @ - 1]
    /\ lastCancel' = ErrNil
    /\ UNCHANGED <<jobs, phase, jobQueue, stop, cancelMap, proc, waiting, enqueued, ordVars, setVars>>

(***************************************************************************)
(* JobProcessor.Stop: jp.cancel(); close(jp.jobQueue); jp.wg.Wait()        *)
(***************************************************************************)
StopCancel ==
    /\ stop = "running"
    /\ stop' = "cancelled"
    /\ UNCHANGED <<jobs, phase, jobQueue, cancelMap, ctxCancelled, proc, waiting, cancelPending, lastCancel, cancelled, enqueued, ordVars, setVars>>

StopClose ==
    /\ stop = "cancelled"
    /\ stop' = "closed"
    /\ UNCHANGED <<jobs, phase, jobQueue, cancelMap, ctxCancelled, proc, waiting, cancelPending, lastCancel, cancelled, enqueued, ordVars, setVars>>

StopWait ==
    /\ stop = "closed"
    /\ ExitedWorkers = NumWorkers
    /\ stop' = "stopped"
    /\ UNCHANGED <<jobs, phase, jobQueue, cancelMap, ctxCancelled, proc, waiting, cancelPending, lastCancel, cancelled, enqueued, ordVars, setVars>>

\* NewJobProcessor and Start: empty queue, empty cancel map, the workers waiting;
\* ids are the job ids the behaviour can submit, no job has a row or a file yet
JobsStartOn(ids) ==
    /\ jobs = [j \in ids |-> NoJob]
    /\ phase = [j \in ids |-> "none"]
    /\ jobQueue = <<>>
    /\ stop = "running"
    /\ cancelMap = {}
    /\ ctxCancelled = [j \in ids |-> FALSE]
    /\ proc = [j \in ids |-> NoProc]
    /\ waiting = NumWorkers
    /\ cancelPending = [j \in ids |-> 0]
    /\ lastCancel = NoCancel
    /\ cancelled = {}
    /\ enqueued = <<>>
    /\ csv = [j \in ids |-> NoFile]
    /\ committed = {}

\* a transactions table of NumTxns COMPLETED rows of merchant 1 paid at midnight
\* of day 0, an empty settlements table, the window
\* [day 0, day 0] and the configured batch size
SettleQuiet ==
    /\ transactions = [i \in 1..NumTxns |->
                          [id |-> i, merchant_id |-> 1, amount_cents |-> AmountOf(i),
                           fee_cents |-> FeeOf(i), status |-> TransactionStatusCompleted,
                           paid_at |-> Midnight(0)]]
    /\ window = [from |-> 0, to |-> 0]
    /\ batchSize = BatchSize
    /\ settlements = {}
    /\ fan = NoFanOut

JobsStart == JobsStartOn(1..NumJobs) /\ SettleQuiet

\* the order tables when only the job engine is exercised
OrdersQuiet ==
    /\ products = [p \in StoredProducts |-> [stock |-> 0, price |-> 3, version |-> 1]]
    /\ initial = products
    /\ orders = {}
    /\ rowLock = [p \in StoredProducts |-> 0]
    /\ call = [c \in Calls |-> IdleCall]
    /\ lastGet = [c \in Calls |-> NoResponse]
    /\ listing = NoListing

InitJobs == JobsStart /\ OrdersQuiet

\* the steps of the worker that runs processJob on job j
ProcessStep(j) ==
    \/ StoreHandle(j)
    \/ MarkStarted(j)
    \/ GetTotalCount(j)
    \/ UpdateProgress0(j)
    \/ LoopCheckCtx(j)
    \/ IsCancelled(j)
    \/ GetBatch(j)
    \/ UpdateProgress(j)
    \/ SaveSettlements(j)
    \/ Upsert(j)
    \/ CommitSettlements(j)
    \/ CreateCSV(j)
    \/ UpdateResult(j)
    \/ MarkCompleted(j)
    \/ UpdateStatusFailed(j)
    \/ UpdateError(j)
    \/ Cleanup(j)

\* submit, the workers and cancel, without storage faults and without shutdown
NextCancel ==
    \/ \E j \in JobIDs : SubmitCreate(j)
    \/ \E j \in JobIDs : QueueJob(j)
    \/ Dequeue
    \/ \E j \in JobIDs : ProcessStep(j)
    \/ \E j \in JobIDs : CancelDB(j)
    \/ \E j \in JobIDs : CancelTrigger(j)

NextJobs ==
    \/ NextCancel
    \/ \E j \in JobIDs : MarkStartedFault(j)
    \/ \E j \in JobIDs : AggregatorFault(j)
    \/ \E j \in JobIDs : UpsertFault(j)
    \/ \E j \in JobIDs : UpdateResultFault(j)
    \/ StopCancel
    \/ StopClose
    \/ StopWait
    \/ WorkerExit

SpecJobs == InitJobs /\ [][NextJobs]_vars

SpecCancel == InitJobs /\ [][NextCancel]_vars

(***************************************************************************)
(* Settlement runs: the specifications that vary the data                  *)
(***************************************************************************)
\* the steps of processJob on job j when nothing fails and nobody cancels
SuccessStep(j) ==
    \/ StoreHandle(j)
    \/ MarkStarted(j)
    \/ GetTotalCount(j)
    \/ UpdateProgress0(j)
    \/ LoopCheckCtx(j)
    \/ IsCancelled(j)
    \/ GetBatch(j)
    \/ UpdateProgress(j)
    \/ SaveSettlements(j)
    \/ Upsert(j)
    \/ CommitSettlements(j)
    \/ CreateCSV(j)
    \/ UpdateResult(j)
    \/ MarkCompleted(j)
    \/ Cleanup(j)

\* a client that submits its next job when the one before was processed
RunSubmit(j) ==
    /\ \A i \in JobIDs : i < j => phase[i] = "processed"
    /\ SubmitCreate(j)

\* the transaction tables of MaxTxns rows whose fields come from the given sets
Tables(merchants, times, statuses) ==
    {t \in [1..MaxTxns -> [id : 1..MaxTxns, merchant_id : merchants,
                           amount_cents : {AmountOf(i) : i \in 1..MaxTxns},
                           fee_cents : {FeeOf(i) : i \in 1..MaxTxns},
                           status : statuses, paid_at : times]] :
        \A i \in 1..MaxTxns : /\ t[i].id = i
                              /\ t[i].amount_cents = AmountOf(i)
                              /\ t[i].fee_cents = FeeOf(i)}

\* runs one after the other over any table of COMPLETED and PENDING transactions
\* of two merchants paid at midnights, the window being all days, any batch size
InitSettle ==
    /\ JobsStartOn(1..NumRuns)
    /\ OrdersQuiet
    /\ transactions \in Tables(Merchants, {Midnight(d) : d \in Days},
                               {TransactionStatusCompleted, TransactionStatusPending})
    /\ window = [from |-> 0, to |-> MaxDay]
    /\ batchSize \in 1..BatchSize
    /\ settlements = {}
    /\ fan = NoFanOut

NextSettle ==
    \/ \E j \in JobIDs : RunSubmit(j)
    \/ \E j \in JobIDs : QueueJob(j)
    \/ Dequeue
    \/ \E j \in JobIDs : SuccessStep(j)

SpecSettle == InitSettle /\ [][NextSettle]_vars

\* one run over any table of one merchant's transactions of every status paid at
\* any time, for any window from <= to
InitWindow ==
    /\ JobsStartOn({1})
    /\ OrdersQuiet
    /\ transactions \in Tables({1}, Times,
                               {TransactionStatusCompleted, TransactionStatusPending,
                                TransactionStatusFailed})
    /\ window \in {w \in [from : Days, to : Days] : w.from <= w.to}
    /\ batchSize = BatchSize
    /\ settlements = {}
    /\ fan = NoFanOut

SpecWindow == InitWindow /\ [][NextSettle]_vars

\* the job engine with cancels and upsert failures over a table of MaxTxns
\* COMPLETED rows that alternate between the two merchants
InitSettleCancel ==
    /\ JobsStartOn(1..NumJobs)
    /\ OrdersQuiet
    /\ transactions = [i \in 1..MaxTxns |->
                          [id |-> i, merchant_id |-> 1 + (i % 2), amount_cents |-> AmountOf(i),
                           fee_cents |-> FeeOf(i), status |-> TransactionStatusCompleted,
                           paid_at |-> Midnight(0)]]
    /\ window = [from |-> 0, to |-> 0]
    /\ batchSize = 1
    /\ settlements = {}
    /\ fan = NoFanOut

NextSettleCancel ==
    \/ NextCancel
    \/ \E j \in JobIDs : UpsertFault(j)

SpecSettleCancel == InitSettleCancel /\ [][NextSettleCancel]_vars

\* submissions against a queue that they can fill: one job more than it holds
InitQueue ==
    /\ JobsStartOn(1..(QueueSize + 1))
    /\ SettleQuiet
    /\ OrdersQuiet

NextQueue ==
    \/ \E j \in JobIDs : SubmitCreate(j)
    \/ \E j \in JobIDs : QueueJob(j)
    \/ Dequeue
    \/ \E j \in JobIDs : SuccessStep(j)

SpecQueue == InitQueue /\ [][NextQueue]_vars

\* shutdown while clients submit and workers run: one job more than there are
\* workers, so that a job can wait in the queue while the workers are busy
InitStop ==
    /\ JobsStartOn(1..(NumWorkers + 1))
    /\ SettleQuiet
    /\ OrdersQuiet

\* submit, the workers with storage faults in the aggregator, and Stop; no cancels
NextStop ==
    \/ \E j \in JobIDs : SubmitCreate(j)
    \/ \E j \in JobIDs : QueueJob(j)
    \/ Dequeue
    \/ \E j \in JobIDs : ProcessStep(j)
    \/ \E j \in JobIDs : AggregatorFault(j)
    \/ StopCancel
    \/ StopClose
    \/ StopWait
    \/ WorkerExit

SpecStop == InitStop /\ [][NextStop]_vars

\* The Go scheduler runs every runnable goroutine: a worker in processJob takes its
\* next step, a worker whose select has a ready return case takes a case, Stop goes
\* on to its next statement.  Submissions are up to the clients.
SpecStopFair ==
    /\ InitStop
    /\ [][NextStop]_vars
    /\ \A j \in 1..(NumWorkers + 1) : WF_vars(ProcessStep(j))
    /\ WF_vars(Dequeue \/ WorkerExit)
    /\ WF_vars(StopClose)
    /\ WF_vars(StopWait)

\* one run over any table of COMPLETED and PENDING transactions of two merchants
\* paid at midnights, the window being all days, for any batch size
InitLoop ==
    /\ JobsStartOn({1})
    /\ OrdersQuiet
    /\ transactions \in Tables(Merchants, {Midnight(d) : d \in Days},
                               {TransactionStatusCompleted, TransactionStatusPending})
    /\ window = [from |-> 0, to |-> MaxDay]
    /\ batchSize \in 1..BatchSize
    /\ settlements = {}
    /\ fan = NoFanOut

\* transactionRepository.Create: a COMPLETED transaction of merchant 1 paid at
\* midnight of day 0 is inserted, with the next id
CreateTransaction ==
    /\ Len(transactions) < MaxTxns
    /\ transactions' = Append(transactions,
                              [id |-> Len(transactions) + 1, merchant_id |-> 1,
                               amount_cents |-> AmountOf(Len(transactions) + 1),
                               fee_cents |-> FeeOf(Len(transactions) + 1),
                               status |-> TransactionStatusCompleted,
                               paid_at |-> Midnight(0)])
    /\ UNCHANGED <<jobVars, ordVars, window, batchSize, settlements, csv, committed, fan>>

\* one run over a table of no or NumTxns COMPLETED transactions in the window,
\* for any batch size, while transactions are inserted
InitInsert ==
    /\ JobsStartOn({1})
    /\ OrdersQuiet
    /\ transactions \in {[i \in 1..n |->
                             [id |-> i, merchant_id |-> 1, amount_cents |-> AmountOf(i),
                              fee_cents |-> FeeOf(i), status |-> TransactionStatusCompleted,
                              paid_at |-> Midnight(0)]] : n \in 0..NumTxns}
    /\ window = [from |-> 0, to |-> MaxDay]
    /\ batchSize \in 1..BatchSize
    /\ settlements = {}
    /\ fan = NoFanOut

NextInsert ==
    \/ NextSettle
    \/ CreateTransaction

SpecInsert == InitInsert /\ [][NextInsert]_vars

\* the COMPLETED transaction with id i of merchant m, paid at noon of day 0
FanTxn(i, m) ==
    [id |-> i, merchant_id |-> m, amount_cents |-> AmountOf(i), fee_cents |-> FeeOf(i),
     status |-> TransactionStatusCompleted, paid_at |-> Midnight(0) + 1]

\* the pages of 1..FanTxns transactions of the two merchants
FanBatches ==
    UNION {{[i \in 1..n |-> FanTxn(i, m[i])] : m \in [1..n -> Merchants]} : n \in 1..FanTxns}

\* processBatch is called with any page, on an empty map or on the map an
\* earlier page of one transaction of merchant 1 left
InitFanOut ==
    /\ JobsStartOn({1})
    /\ OrdersQuiet
    /\ transactions = <<>>
    /\ window = [from |-> 0, to |-> 0]
    /\ batchSize = BatchSize
    /\ settlements = {}
    /\ \E b \in FanBatches, m0 \in {{}, ProcessBatch({}, <<FanTxn(FanTxns + 1, 1)>>)} :
          fan = [phase |-> "fanout", batch |-> b, map0 |-> m0, map |-> m0, next |-> 1,
                 pc |-> [i \in 1..Len(b) |-> "new"], mu |-> 0, peak |-> 0,
                 found |-> [i \in 1..Len(b) |-> NoFanOut]]

NextFanOut ==
    \/ FanGo
    \/ \E i \in 1..FanTxns : i \in DOMAIN fan.pc /\ FanLock(i)
    \/ \E i \in 1..FanTxns : i \in DOMAIN fan.pc /\ FanLookup(i)
    \/ \E i \in 1..FanTxns : i \in DOMAIN fan.pc /\ FanAdd(i)
    \/ FanWait

SpecFanOut == InitFanOut /\ [][NextFanOut]_vars

\* the worker goroutine that runs the job is scheduled until it is done
SpecLoopFair == InitLoop /\ [][NextSettle]_vars /\ WF_vars(NextSettle)

InitOrders ==
    /\ products \in [StoredProducts -> [stock : 0..MaxStock, price : Prices, version : {1}]]
    /\ initial = products
    /\ orders = {}
    /\ rowLock = [p \in StoredProducts |-> 0]
    /\ call = [c \in Calls |-> IdleCall]
    /\ lastGet = [c \in Calls |-> NoResponse]
    /\ listing = NoListing
    /\ JobsStart

NextOrders ==
    \/ \E c \in Calls : BeginCreateOrder(c)
    \/ \E c \in Calls : GetByIDForUpdate(c)
    \/ \E c \in Calls : CheckAndInsert(c)
    \/ \E c \in Calls : DecrementStock(c)
    \/ \E c \in Calls : CommitOrder(c)
    \/ \E c \in Calls : OrderFault(c)
    \/ \E c \in Calls : GetOrder(c)

SpecOrders == InitOrders /\ [][NextOrders]_vars

\* where a call stands while its WithTx transaction is open
TxPcs == {"tx", "locked", "inserted", "updated"}

\* db.BeginTx fails: WithTx returns the wrapped error, fn is not called
BeginTxFault(c) ==
    /\ call[c].pc = "idle"
    /\ \E pid \in RequestedProducts, q \in 1..MaxQty, e \in {ErrCancelled, ErrStorage} :
          call' = [call EXCEPT ![c] =
                      [@ EXCEPT !.pc = "done", !.at = "idle", !.err = e,
                                !.req = [product_id |-> pid, quantity |-> q,
                                         buyer_id |-> BuyerID(c)],
                                !.ret = "failed to begin transaction: " \o e]]
    /\ UNCHANGED <<products, orders, rowLock, lastGet, initial, listing, jobVars, setVars>>

\* fn panics: the deferred function recovers, calls tx.Rollback(), which drops
\* the writes and releases the row locks, and panics again with the same value
ScopePanic(c) ==
    /\ call[c].pc \in {"tx", "locked", "inserted"}
    /\ rowLock' = [p \in DOMAIN rowLock |-> IF rowLock[p] = c THEN 0 ELSE rowLock[p]]
    /\ call' = [call EXCEPT ![c] = [IdleCall EXCEPT !.pc = "panicked", !.req = call[c].req,
                                                    !.at = call[c].pc, !.err = PanicValue,
                                                    !.ret = PanicValue]]
    /\ UNCHANGED <<products, orders, lastGet, initial, listing, jobVars, setVars>>

\* the orders tables of up to MaxListed rows, created one after the other: the
\* order with id i may have been created at any of the times 1..MaxListed
ListTables ==
    UNION {{{[id |-> i, product_id |-> 1, buyer_id |-> BuyerID(1), quantity |-> 1,
              status |-> OrderStatusConfirmed, total_cents |-> 3,
              created_at |-> at[i]] : i \in 1..n} :
               at \in {f \in [1..n -> 1..MaxListed] :
                          \A i, k \in 1..n : i # k => f[i] # f[k]}} : n \in 0..MaxListed}

InitList ==
    /\ JobsStart
    /\ products = [p \in StoredProducts |-> [stock |-> 0, price |-> 3, version |-> 1]]
    /\ initial = products
    /\ orders \in ListTables
    /\ rowLock = [p \in StoredProducts |-> 0]
    /\ call = [c \in Calls |-> IdleCall]
    /\ lastGet = [c \in Calls |-> NoResponse]
    /\ listing = NoListing

NextList == ListOrders

SpecList == InitList /\ [][NextList]_vars

NextWithTx ==
    \/ NextOrders
    \/ \E c \in Calls : BeginTxFault(c)
    \/ \E c \in Calls : ScopePanic(c)

SpecWithTx == InitOrders /\ [][NextWithTx]_vars

\* the versions a caller of UpdateStock may expect: those a row can have after
\* NumCalls updates
Versions == 1..(NumCalls + 1)

\* productRepository.UpdateStock called on its own, in a transaction that commits
\* when it returns nil: any quantity and any expected version against the stored row
UpdateStockCall(c) ==
    /\ call[c].pc = "idle"
    /\ \E pid \in StoredProducts, q \in 0..MaxQty, v \in Versions :
          LET err == UpdateStock(products[pid], q, v) IN
          /\ products' = IF WithTxCommits(err)
                          THEN [products EXCEPT ![pid] = UpdateStockSet(@, q)]
                          ELSE products
          /\ call' = [call EXCEPT ![c] =
                         [IdleCall EXCEPT !.pc = "done",
                                          !.req = [product_id |-> pid, quantity |-> q,
                                                   buyer_id |-> BuyerID(c)],
                                          !.product = [products[pid] EXCEPT !.version = v],
                                          !.err = err, !.at = "inserted"]]
    /\ UNCHANGED <<orders, rowLock, lastGet, initial, listing, jobVars, setVars>>

NextUpdateStock == \E c \in Calls : UpdateStockCall(c)

SpecUpdateStock == InitOrders /\ [][NextUpdateStock]_vars

(***************************************************************************)
(* Orders: properties                                                      *)
(***************************************************************************)
RECURSIVE SumQuantity(_)
SumQuantity(S) ==
    IF S = {} THEN 0
    ELSE LET c == CHOOSE x \in S : TRUE IN call[c].req.quantity + SumQuantity(S \ {c})

Succeeded(c) == call[c].pc = "done" /\ call[c].err = ErrNil
Failed(c) == call[c].pc = "done" /\ call[c].err # ErrNil
SuccessesOn(p) == {c \in Calls : Succeeded(c) /\ call[c].req.product_id = p}
NoCallInFlight == \A c \in Calls : call[c].pc \in {"idle", "done"}
AllCallsDone == \A c \in Calls : call[c].pc = "done"
OrderRowsOf(p) == {o \in orders : o.product_id = p}

\* C1: for every product, under every interleaving of CreateOrder calls, stock is
\* never negative, the successful calls never outnumber the initial stock, and
\* whenever no call is in flight stock = initial stock - sum of the successful
\* quantities.
C1_NoOversell ==
    \A p \in StoredProducts :
        /\ products[p].stock >= 0
        /\ Cardinality(SuccessesOn(p)) <= initial[p].stock
        /\ NoCallInFlight =>
              products[p].stock = initial[p].stock - SumQuantity(SuccessesOn(p))

\* two calls raced for a stock of 2: one took both units, the other ran out
C1_Witness ==
    /\ AllCallsDone
    /\ initial[1].stock = 2
    /\ products[1].stock = 0
    /\ \E c1, c2 \in Calls :
          /\ Succeeded(c1) /\ call[c1].req.quantity = 2
          /\ call[c2].err = ErrOutOfStock /\ call[c2].at = "locked"

\* C2: N unit-quantity calls on one product with initial stock S <= N, none of
\* them cancelled or hit by a storage failure: exactly S succeed, the others fail
\* with OutOfStock or ConcurrencyConflict, final stock is 0 and the product has
\* exactly S order rows.
C2_ExactStockRace ==
    \A p \in StoredProducts :
        ( /\ AllCallsDone
          /\ \A c \in Calls : /\ call[c].req.product_id = p
                              /\ call[c].req.quantity = 1
                              /\ call[c].err \notin {ErrCancelled, ErrStorage}
          /\ NumCalls >= initial[p].stock )
        => /\ Cardinality(SuccessesOn(p)) = initial[p].stock
           /\ \A c \in Calls \ SuccessesOn(p) : call[c].err \in {ErrOutOfStock, ErrConcurrency}
           /\ products[p].stock = 0
           /\ Cardinality(OrderRowsOf(p)) = initial[p].stock

\* two unit orders raced for the last unit
C2_Witness ==
    /\ AllCallsDone
    /\ initial[1].stock = 1
    /\ \A c \in Calls : call[c].req.product_id = 1 /\ call[c].req.quantity = 1
    /\ \E c1, c2 \in Calls : Succeeded(c1) /\ call[c2].err = ErrOutOfStock

\* C3: the step in which a CreateOrder call returns an error changes neither the
\* products table nor the orders table, no step of a call other than its
\* successful commit changes them, and no order row of a failed call is visible.
C3_ErrorRollsBack ==
    [][ /\ \A c \in Calls :
              (call[c].pc # "done" /\ call'[c].pc = "done" /\ call'[c].err # ErrNil)
              => /\ products' = products
                 /\ orders' = orders
        /\ (products' # products \/ orders' # orders)
              => \E c \in Calls : call[c].pc = "updated" /\ call'[c].pc = "done"
                                  /\ call'[c].err = ErrNil
        /\ \A c \in Calls :
              (call'[c].pc = "done" /\ call'[c].err # ErrNil)
              => \A o \in orders' : o.id # c ]_vars

\* a call was cancelled after its order insert and its stock update, another one
\* was refused for lack of stock
C3_Witness ==
    /\ \E c \in Calls : call[c].pc = "done" /\ call[c].err = ErrCancelled
                        /\ call[c].at = "updated"
    /\ \E c \in Calls : call[c].pc = "done" /\ call[c].err = ErrOutOfStock
    /\ orders = {}
    /\ products = initial

\* C4: the step in which CreateOrder returns success returns an order that is
\* CONFIRMED, carries the requested product, buyer and quantity and
\* total = (price read under the lock) x quantity, and commits exactly one order
\* row (the call's) together with a stock decrease of exactly the quantity.
C4_SuccessfulOrder ==
    [][ \A c \in Calls :
            (call[c].pc # "done" /\ call'[c].pc = "done" /\ call'[c].err = ErrNil)
            => LET o == call'[c].order
                   r == call[c].req
                   p == r.product_id IN
               /\ o.status = OrderStatusConfirmed
               /\ o.id = c
               /\ o.product_id = p
               /\ o.buyer_id = r.buyer_id
               /\ o.quantity = r.quantity
               /\ o.total_cents = call[c].product.price * r.quantity
               /\ Cardinality(orders' \ orders) = 1
               /\ orders \subseteq orders'
               /\ \A row \in orders' \ orders :
                      /\ row.id = c /\ row.product_id = p /\ row.quantity = r.quantity
                      /\ row.total_cents = o.total_cents
               /\ products'[p].stock = products[p].stock - r.quantity
               /\ products'[p].price = products[p].price ]_vars

\* an order of 2 units was placed
C4_Witness ==
    \E c \in Calls :
        /\ Succeeded(c)
        /\ call[c].req.quantity = 2
        /\ call[c].order.total_cents = 2 * initial[1].price
        /\ \E o \in orders : o.id = c
        /\ products[1].stock = initial[1].stock - 2

\* C5: every order row visible in storage has status CONFIRMED.
C5_OnlyConfirmedPersisted ==
    \A o \in orders : o.status = OrderStatusConfirmed

\* C6: GetOrder after a successful CreateOrder returns the id, product, buyer,
\* quantity, status and total the create response carried, plus the joined product.
C6_GetAfterCreate ==
    \A c \in Calls :
        lastGet[c] # NoResponse
        => /\ lastGet[c].err = ErrNil
           /\ lastGet[c].order.id = call[c].order.id
           /\ lastGet[c].order.product_id = call[c].order.product_id
           /\ lastGet[c].order.buyer_id = call[c].order.buyer_id
           /\ lastGet[c].order.quantity = call[c].order.quantity
           /\ lastGet[c].order.status = call[c].order.status
           /\ lastGet[c].order.total_cents = call[c].order.total_cents
           /\ lastGet[c].product # NoProduct

(***************************************************************************)
(* Job engine: specification with fair scheduling and properties           *)
(***************************************************************************)
\* The Go scheduler runs every runnable goroutine: a waiting worker takes a queued
\* job, a worker in processJob takes its next step, a CancelJob request that has
\* updated the row goes on to the trigger.  Submissions and new cancels are up to
\* the clients and carry no fairness.
SpecCancelFair ==
    /\ InitJobs
    /\ [][NextCancel]_vars
    /\ WF_vars(Dequeue)
    /\ \A j \in 1..NumJobs : WF_vars(ProcessStep(j))
    /\ \A j \in 1..NumJobs : WF_vars(CancelTrigger(j))

\* the status changes the lifecycle allows out of a non-terminal state
AllowedTransitions ==
    { <<JobStatusQueued, JobStatusRunning>>, <<JobStatusQueued, JobStatusCancelled>>,
      <<JobStatusRunning, JobStatusCompleted>>, <<JobStatusRunning, JobStatusFailed>>,
      <<JobStatusRunning, JobStatusCancelled>> }

\* C7: a job row appears with status QUEUED, and every change of the stored status
\* out of QUEUED or RUNNING is QUEUED->RUNNING, QUEUED->CANCELLED, RUNNING->COMPLETED,
\* RUNNING->FAILED or RUNNING->CANCELLED, whatever the interleaving of submit,
\* worker, cancel, storage faults and shutdown.
C7_Transitions ==
    [][\A j \in JobIDs :
          /\ (jobs[j] = NoJob /\ jobs'[j] # NoJob) => jobs'[j].status = JobStatusQueued
          /\ (/\ jobs[j].status \in {JobStatusQueued, JobStatusRunning}
              /\ jobs'[j].status # jobs[j].status)
             => <<jobs[j].status, jobs'[j].status>> \in AllowedTransitions]_vars

\* a job that failed in processing, was then refused a cancel, and the engine stopped
C7_Witness ==
    \E j \in JobIDs :
        /\ jobs[j].status = JobStatusFailed
        /\ jobs[j].error = ErrStorage
        /\ lastCancel = ErrJobAlreadyCancelled
        /\ stop = "stopped"

\* C8: once the stored status of a job is COMPLETED, FAILED or CANCELLED, no step
\* changes it.
C8_TerminalSticky ==
    [][\A j \in JobIDs :
          jobs[j].status \in TerminalStatuses => jobs'[j].status = jobs[j].status]_vars

\* C9: a cancel on a job whose status is COMPLETED, FAILED or CANCELLED does not
\* succeed, the request that returns JobAlreadyCancelled leaves the job rows and the
\* job contexts as they were, and once a cancel of a job has returned success no
\* later cancel of that job succeeds.
C9_CancelAfterTerminal ==
    [][/\ \A j \in JobIDs :
             (jobs[j].status \in TerminalStatuses \/ j \in cancelled)
             => cancelPending'[j] <= cancelPending[j]
       /\ (lastCancel' # lastCancel /\ lastCancel' = ErrJobAlreadyCancelled)
          => (jobs' = jobs /\ ctxCancelled' = ctxCancelled)]_vars

\* C10: after a cancel of a job has returned success, its stored status is
\* eventually not RUNNING and stays so, under fair scheduling of the workers.
C10_NeverStuckRunning ==
    \A j \in 1..NumJobs :
        [](j \in cancelled => <>[](jobs[j].status # JobStatusRunning))

(***************************************************************************)
(* Settlement: properties                                                  *)
(***************************************************************************)
\* progress 100.00, in the hundredths of a percent the column stores
FullProgress == Progress(1, 1)

\* the settlement map one complete run accumulates over the window
RunMap == ProcessBatch({}, Matching)

\* C11: every job whose stored status is COMPLETED has progress 100 and
\* processed = total, total being the number of COMPLETED transactions of the window.
C11_CompletedProgress ==
    \A j \in JobIDs :
        jobs[j].status = JobStatusCompleted
        => /\ jobs[j].progress = FullProgress
           /\ jobs[j].total = Len(Matching)
           /\ jobs[j].processed = jobs[j].total

\* C12: a job over a window without a COMPLETED transaction ends COMPLETED with
\* progress 100, its CSV holds the header line only and no settlement row is written.
C12_EmptyWindow ==
    \A j \in JobIDs :
        (Len(Matching) = 0 /\ phase[j] = "processed")
        => /\ jobs[j].status = JobStatusCompleted
           /\ jobs[j].progress = FullProgress
           /\ csv[j] = [exists |-> TRUE, header |-> TRUE, records |-> <<>>]
           /\ settlements = {}

\* C13: in every reachable state in which a job's stored status is COMPLETED, its
\* result fields (result_path and download_url) are set and its CSV file exists.
C13_ResultBeforeCompleted ==
    \A j \in JobIDs :
        jobs[j].status = JobStatusCompleted => (jobs[j].result /\ csv[j].exists)

\* a job that ran to COMPLETED and whose worker has returned to the select
C13_Witness ==
    \E j \in JobIDs :
        /\ jobs[j].status = JobStatusCompleted
        /\ phase[j] = "processed"
        /\ jobs[j].result

\* the ids of the COMPLETED transactions of merchant m paid on day d inside the
\* window [from midnight, to midnight + 1 day)
Contributors(m, d) ==
    {i \in DOMAIN transactions :
        /\ transactions[i].status = TransactionStatusCompleted
        /\ transactions[i].merchant_id = m
        /\ transactions[i].paid_at \div HalfDaysPerDay = d
        /\ window.from <= d
        /\ d <= window.to}

RECURSIVE SumAmount(_)
SumAmount(S) ==
    IF S = {} THEN 0
    ELSE LET i == CHOOSE x \in S : TRUE IN transactions[i].amount_cents + SumAmount(S \ {i})

RECURSIVE SumFee(_)
SumFee(S) ==
    IF S = {} THEN 0
    ELSE LET i == CHOOSE x \in S : TRUE IN transactions[i].fee_cents + SumFee(S \ {i})

\* the settlement rows stored for merchant m and day d
RowsOf(m, d) == {r \in settlements : r.merchant_id = m /\ r.date = Midnight(d)}

\* the table holds, for every merchant and day with a contributor, exactly one
\* row, whose sums are n times those of the contributors
SettledTimes(n) ==
    \A m \in Merchants, d \in Days :
        Contributors(m, d) # {}
        => /\ Cardinality(RowsOf(m, d)) = 1
           /\ \A r \in RowsOf(m, d) :
                 /\ r.gross_cents = n * SumAmount(Contributors(m, d))
                 /\ r.fee_cents = n * SumFee(Contributors(m, d))
                 /\ r.net_cents = r.gross_cents - r.fee_cents
                 /\ r.txn_count = n * Cardinality(Contributors(m, d))

\* C14: after one run over the window, on an initially empty settlements table,
\* every (merchant, day) with a COMPLETED transaction in the window has exactly one
\* row with gross = sum of amounts, fee = sum of fees, net = gross - fee and
\* txn_count = number of those transactions, for every batch size.
C14_OneRunSettles ==
    Cardinality(committed) = 1 => SettledTimes(1)

\* one run committed that read two transactions of one merchant and day in two pages
C14_Witness ==
    /\ Cardinality(committed) = 1
    /\ batchSize = 1
    /\ \E m \in Merchants, d \in Days : Cardinality(Contributors(m, d)) >= 2
    /\ phase[1] = "processed"

\* the ids of all transactions that are COMPLETED and paid on a day from..to
AllContributors == UNION {Contributors(m, d) : m \in Merchants, d \in Days}

\* C15: a run for the dates [from, to] aggregates exactly the COMPLETED transactions
\* paid on the days from..to, both included: they make up the count used as the
\* progress denominator and the settlement rows, and no row exists for a merchant
\* and day without such a transaction.
C15_WindowInclusive ==
    /\ \A j \in JobIDs :
          proc[j].pc \notin {"none", "store", "markStarted", "count"}
          => proc[j].totalCount = Cardinality(AllContributors)
    /\ committed # {}
       => /\ SettledTimes(1)
          /\ \A r \in settlements :
                Contributors(r.merchant_id, r.date \div HalfDaysPerDay) # {}

\* a committed run for a single date, with a COMPLETED transaction at noon of
\* that date and another at the midnight that ends it
C15_Witness ==
    /\ committed = {1}
    /\ window.from = window.to
    /\ \E i, k \in DOMAIN transactions :
          /\ transactions[i].status = TransactionStatusCompleted
          /\ transactions[i].paid_at = Midnight(window.to) + 1
          /\ transactions[k].status = TransactionStatusCompleted
          /\ transactions[k].paid_at = Midnight(window.to + 1)
    /\ settlements # {}

\* C16: after two runs for the same window over the same transactions, every
\* (merchant, day) key still has exactly one row, and its gross, fee, net and
\* txn_count are twice the sums of its contributors, i.e. twice what one run stored.
C16_RerunDoubles ==
    Cardinality(committed) = 2 => SettledTimes(2)

\* both runs were processed and committed rows
C16_Witness ==
    /\ committed = {1, 2}
    /\ phase[2] = "processed"
    /\ \E r \in settlements : r.txn_count = 2 * Cardinality(AllContributors) /\ r.txn_count >= 4

\* C17: the upsert of a run is all or nothing: in every reachable state the
\* settlements table holds exactly the complete sums of the runs whose transaction
\* committed, and nothing of a run whose upsert loop failed or was cancelled.
C17_UpsertAllOrNothing ==
    /\ committed = {} => settlements = {}
    /\ committed # {}
       => /\ SettledTimes(Cardinality(committed))
          /\ \A r \in settlements :
                Contributors(r.merchant_id, r.date \div HalfDaysPerDay) # {}

\* a job cancelled in the middle of its upsert loop: one row upserted, one to go,
\* the job context cancelled, the table still empty
C17_Witness ==
    \E j \in JobIDs :
        /\ proc[j].pc = "upsert"
        /\ proc[j].upserted # {}
        /\ proc[j].upserted # proc[j].settlements
        /\ ctxCancelled[j]
        /\ j \in cancelled
        /\ settlements = {}

\* C18: if the CSV file of a job exists, the upsert transaction of that job's run
\* has committed.
C18_CsvImpliesCommitted ==
    \A j \in JobIDs : csv[j].exists => j \in committed

\* a job whose CSV was written and that failed afterwards, on its result update
C18_Witness ==
    \E j \in JobIDs :
        /\ csv[j].exists
        /\ j \in committed
        /\ jobs[j].status = JobStatusFailed
        /\ ~jobs[j].result

\* the positions of processSettlementJob inside its batch loop
LoopPcs == {"loop", "isCancelled", "getBatch", "progress"}

\* C19: if a job is cancelled (its handle triggered or its stored status set to
\* CANCELLED) while the aggregator is in its batch loop, then from there on the run
\* commits nothing to the settlements table, writes no CSV and no result fields.
C19_CancelInLoopNoEffect ==
    \A j \in 1..NumJobs :
        []((/\ proc[j].pc \in LoopPcs
            /\ (ctxCancelled[j] \/ jobs[j].status = JobStatusCancelled))
           => [](j \notin committed /\ ~csv[j].exists /\ ~jobs[j].result))

\* C20: submit never blocks: QueueJob can always return; when the queue holds
\* QueueSize jobs it returns the queue-full error and leaves the queue as it was,
\* when the queue has room the job is appended and it returns success (a request
\* whose own context is cancelled may get that context's error instead).
C20_SubmitNeverBlocks ==
    /\ [](\A j \in 1..(QueueSize + 1) : phase[j] = "created" => ENABLED QueueJob(j))
    /\ [][\A j \in 1..(QueueSize + 1) :
             (phase[j] = "created" /\ phase'[j] # "created")
             => /\ phase'[j] \in {"queued", "full", "ctxerr"}
                /\ Len(jobQueue) >= QueueSize
                   => (phase'[j] # "queued" /\ jobQueue' = jobQueue)
                /\ Len(jobQueue) < QueueSize
                   => (phase'[j] # "full" /\
                       (phase'[j] = "queued" => jobQueue' = Append(jobQueue, j)))
                /\ phase'[j] # "queued" => jobQueue' = jobQueue]_vars

\* a submission was refused because the queue was full, another one is in the queue
C20_Witness ==
    \E j, i \in JobIDs :
        /\ phase[j] = "full"
        /\ phase[i] = "queued"
        /\ Len(jobQueue) = QueueSize


(***************************************************************************)
(* Shutdown: properties                                                    *)
(***************************************************************************)
\* C21: a submit whose enqueue runs after Stop has cancelled the engine context
\* returns the Cancelled error and leaves the queue as it was, so the job is never
\* enqueued or processed.
C21_SubmitAfterStop ==
    [][\A j \in JobIDs :
          (EngineCancelled /\ phase[j] = "created" /\ phase'[j] # "created")
          => (phase'[j] = "ctxerr" /\ jobQueue' = jobQueue)]_vars


\* C22: once Stop has been called it returns, with every worker returned: none is
\* waiting at the select and none is in processJob, also when jobs were in flight
\* or still in the queue.
C22_StopTerminates ==
    EngineCancelled ~> (stop = "stopped" /\ waiting = 0 /\ Processing = {})

\* Stop has returned; one job was in flight when the engine context was cancelled
\* (its row is left RUNNING), another one is still in the queue
C22_Witness ==
    /\ stop = "stopped"
    /\ waiting = 0
    /\ \E j \in JobIDs : phase[j] = "processed" /\ jobs[j].status = JobStatusRunning
    /\ \E j \in JobIDs : phase[j] = "queued" /\ jobQueue = <<j>>


\* C23: once the engine context is cancelled, no step changes the stored status of
\* a job that is QUEUED (in the queue, or dequeued and not yet marked started):
\* shutdown marks it neither RUNNING nor FAILED nor CANCELLED.
C23_QueuedStaysQueued ==
    [][\A j \in JobIDs :
          (EngineCancelled /\ jobs[j].status = JobStatusQueued)
          => jobs'[j].status = JobStatusQueued]_vars

\* a job that a worker dequeued after the engine context was cancelled and has
\* finished with: its row is still QUEUED
C23_Witness ==
    \E j \in JobIDs :
        /\ EngineCancelled
        /\ phase[j] = "processed"
        /\ jobs[j].status = JobStatusQueued


\* C24: when processJob has handled a storage or filesystem error that the
\* processing of a job marked RUNNING returned, the job's stored status is FAILED
\* and its error field holds the error text.
C24_ErrorMarksFailed ==
    \A j \in JobIDs :
        (proc[j].pc = "cleanup" /\ proc[j].err = ErrStorage)
        => (jobs[j].status = JobStatusFailed /\ jobs[j].error = ErrStorage)


(***************************************************************************)
(* Products: version and the conditional stock update                      *)
(***************************************************************************)
\* C25: every step leaves a product's version as it was or raises it by exactly 1;
\* the step in which a CreateOrder call returns success raises the version of its
\* product by 1, the step in which a call returns an error changes no product row,
\* and no step changes a product's stock without changing its version.
C25_VersionIncreases ==
    [][\A p \in StoredProducts :
          /\ products'[p].version \in {products[p].version, products[p].version + 1}
          /\ products'[p].stock # products[p].stock
                => products'[p].version = products[p].version + 1
          /\ \A c \in Calls :
                (call[c].pc # "done" /\ call'[c].pc = "done" /\ call[c].req.product_id = p)
                => IF call'[c].err = ErrNil
                   THEN products'[p].version = products[p].version + 1
                   ELSE products'[p] = products[p]]_vars

\* one call decremented the stock and committed, the other was cancelled after its
\* stock update and rolled back: the version went up by one
C25_Witness ==
    /\ \E c \in Calls : Succeeded(c) /\ call[c].req.product_id = 1
    /\ \E c \in Calls : call[c].pc = "done" /\ call[c].err = ErrCancelled
                        /\ call[c].at = "updated" /\ call[c].req.product_id = 1
    /\ products[1].version = initial[1].version + 1
    /\ products[1].stock < initial[1].stock


\* C26: UpdateStock(id, qty, expected_version) decrements stock by qty and raises
\* version by 1 if and only if the stored version equals expected_version and the
\* stored stock >= qty, and then returns nil; otherwise the row is unchanged and it
\* returns OutOfStock when the stored stock < qty, ConcurrencyConflict when
\* stock >= qty and the version differs.
C26_UpdateStockIff ==
    [][\A c \in Calls :
          (call[c].pc = "idle" /\ call'[c].pc = "done")
          => LET pid == call'[c].req.product_id
                 q == call'[c].req.quantity
                 v == call'[c].product.version
                 row == products[pid]
                 applies == row.version = v /\ row.stock >= q IN
             /\ applies <=> (products'[pid] = [row EXCEPT !.stock = row.stock - q,
                                                           !.version = row.version + 1])
             /\ applies => call'[c].err = ErrNil
             /\ ~applies => /\ products'[pid] = row
                             /\ call'[c].err = IF row.stock < q THEN ErrOutOfStock
                                                ELSE ErrConcurrency]_vars

\* a first call decremented the stock; a second one came with the version from
\* before that update and a quantity the stock covers: it was refused as a conflict
C26_Witness ==
    \E c1, c2 \in Calls :
        /\ call[c1].pc = "done" /\ call[c1].err = ErrNil /\ call[c1].req.quantity > 0
        /\ call[c2].pc = "done" /\ call[c2].err = ErrConcurrency
        /\ call[c2].product.version = initial[1].version
        /\ products[1].stock >= call[c2].req.quantity
        /\ products[1].version = initial[1].version + 1


\* C27: order placements on one product are serialized by the row lock: a call
\* holds the lock of its product from its read until its transaction ends, a call
\* that passed the stock check goes on to the commit unless it is cancelled or
\* storage fails (its conditional decrement never returns OutOfStock or
\* ConcurrencyConflict), and no CreateOrder call ever returns ConcurrencyConflict.
C27_SerializedByRowLock ==
    [][\A c \in Calls :
          /\ call'[c].err # ErrConcurrency
          /\ (call[c].pc = "inserted" /\ call'[c].pc # "inserted")
                => \/ call'[c].pc = "updated"
                   \/ call'[c].err \in {ErrCancelled, ErrStorage}
          /\ call'[c].pc \in {"locked", "inserted", "updated"}
                => rowLock'[call'[c].req.product_id] = c]_vars

\* every call placed an order on the same product: their transactions committed
\* one after the other, each on the version the one before had left
C27_Witness ==
    /\ \A c \in Calls : Succeeded(c) /\ call[c].req.product_id = 1
    /\ products[1].version = initial[1].version + NumCalls
    /\ products[1].stock = initial[1].stock - SumQuantity(Calls)


(***************************************************************************)
(* Workers, queue order and the cancellation map: properties               *)
(***************************************************************************)
\* C28: at any time at most NumWorkers jobs are between their dequeue and the end
\* of processJob, and every job in processJob occupies a worker of its own: the
\* workers waiting, those in processJob and those returned add up to NumWorkers.
C28_WorkerBound ==
    /\ Cardinality(Processing) <= NumWorkers
    /\ waiting >= 0
    /\ waiting + Cardinality(Processing) <= NumWorkers

\* every worker is in processJob and a further job waits in the queue
C28_Witness ==
    /\ Cardinality(Processing) = NumWorkers
    /\ waiting = 0
    /\ jobQueue # <<>>
    /\ stop = "running"


\* C29: the queue is FIFO: when a worker dequeues job b, every job whose enqueue
\* completed before b's has been dequeued already, i.e. b is the first of the
\* jobs enqueued and not yet dequeued.
C29_QueueFIFO ==
    [][\A b \in JobIDs :
          (phase[b] = "queued" /\ phase'[b] = "taken")
          => /\ enqueued # <<>>
             /\ b = Head(enqueued)
             /\ \A a \in JobIDs \ {b} : phase[a] = "queued" => phase'[a] = "queued"]_vars

\* job a was created after job b and enqueued before it: a worker has just taken
\* a, and b is still in the queue
C29_Witness ==
    \E a, b \in JobIDs :
        /\ a > b
        /\ proc[a].pc = "store"
        /\ phase[b] = "queued"
        /\ jobQueue = <<b>>
        /\ enqueued = <<b>>


\* C30: after every step the cancellation map holds exactly the ids of the jobs a
\* worker is processing past the registration, so it is empty whenever no job is
\* being processed; a job is marked RUNNING only while its handle is registered;
\* and a handle is registered only for a job that was just dequeued and has not
\* been processed before.
C30_HandleWhileProcessing ==
    [][/\ cancelMap' = {j \in JobIDs : proc'[j].pc \notin {"none", "store"}}
       /\ (\A j \in JobIDs : proc'[j].pc = "none") => cancelMap' = {}
       /\ \A j \in JobIDs :
             /\ (jobs[j].status # JobStatusRunning /\ jobs'[j].status = JobStatusRunning)
                   => j \in cancelMap
             /\ (j \notin cancelMap /\ j \in cancelMap')
                   => (proc[j].pc = "store" /\ phase[j] = "taken")]_vars

\* a job whose MarkStarted failed on a storage error while the engine was running:
\* processJob returned, the row is still QUEUED and the map is empty again
C30_Witness ==
    \E j \in JobIDs :
        /\ phase[j] = "processed"
        /\ jobs[j].status = JobStatusQueued
        /\ stop = "running"
        /\ ~(j \in cancelled)
        /\ cancelMap = {}


(***************************************************************************)
(* Aggregator loop: properties                                             *)
(***************************************************************************)
\* C31: once the cancellation handle of a job has been triggered or its stored
\* status is CANCELLED while the aggregator is in its batch loop, no step of the
\* aggregator fetches and aggregates a further batch and none leaves the loop
\* towards the upsert.
C31_NoBatchAfterCancel ==
    [][\A j \in JobIDs :
          (/\ proc[j].pc \in LoopPcs
           /\ (ctxCancelled[j] \/ jobs[j].status = JobStatusCancelled))
          => /\ proc'[j].processed = proc[j].processed
             /\ proc'[j].settlements = proc[j].settlements
             /\ proc'[j].pc # "save"]_vars


\* the entries of a settlement map for merchant m and day d
EntriesOf(map, m, d) == {s \in map : s.merchant_id = m /\ s.date = Midnight(d)}

\* the map holds every qualifying transaction exactly once: one entry per merchant
\* and day with a contributor, counting and summing its contributors, and no other
AggregatedOnce(map) ==
    /\ \A m \in Merchants, d \in Days :
          IF Contributors(m, d) = {} THEN EntriesOf(map, m, d) = {}
          ELSE /\ Cardinality(EntriesOf(map, m, d)) = 1
               /\ \A s \in EntriesOf(map, m, d) :
                     /\ s.txn_count = Cardinality(Contributors(m, d))
                     /\ s.gross_cents = SumAmount(Contributors(m, d))
                     /\ s.fee_cents = SumFee(Contributors(m, d))
    /\ \A s \in map : s.merchant_id \in Merchants /\ s.date \in {Midnight(d) : d \in Days}

\* C32: over a transaction table that does not change, for every batch size >= 1,
\* the batch loop ends; processed never exceeds the number of qualifying
\* transactions, and when the loop has ended processed equals that number and
\* every qualifying transaction has been aggregated exactly once.
C32_LoopTerminatesExactlyOnce ==
    /\ [](proc[1].pc \in LoopPcs => proc[1].processed <= Cardinality(AllContributors))
    /\ [](proc[1].pc = "save"
            => /\ proc[1].processed = Cardinality(AllContributors)
               /\ AggregatedOnce(proc[1].settlements))
    /\ (proc[1].pc = "loop") ~> (proc[1].pc = "save")

\* the loop ended after one page per transaction and the empty page
C32_Witness ==
    /\ proc[1].pc = "save"
    /\ batchSize = 1
    /\ Len(Matching) = MaxTxns
    /\ proc[1].processed = MaxTxns
    /\ proc[1].offset = MaxTxns

\* C33: the persisted progress of a job is always within 0..100 and, after each
\* batch, equals processed / total * 100 with processed <= total, also when
\* COMPLETED transactions are inserted into the window after the count was taken
\* and when the count taken at the start was 0.
C33_ProgressInRange ==
    \A j \in JobIDs :
        /\ jobs[j].progress >= 0
        /\ jobs[j].progress <= FullProgress
        /\ (proc[j].pc = "loop" /\ proc[j].processed > 0)
              => /\ proc[j].processed <= proc[j].totalCount
                 /\ jobs[j].processed = proc[j].processed
                 /\ jobs[j].progress = Progress(proc[j].processed, proc[j].totalCount)

\* C34: aggregating a batch with the bounded fan-out (up to 4 goroutines, the
\* mutex on the shared map) gives the same settlement map as aggregating the
\* batch sequentially, for every interleaving of the goroutines.
C34_FanOutEqualsSequential ==
    /\ fan.phase = "returned" => fan.map = ProcessBatch(fan.map0, fan.batch)
    /\ fan.phase \in {"fanout", "returned"} => Cardinality(FanRunning) <= FanLimit

\* a page of more transactions than the limit, some of the same merchant and
\* day, was aggregated with FanLimit goroutines running at a time
C34_Witness ==
    /\ fan.phase = "returned"
    /\ Len(fan.batch) > FanLimit
    /\ fan.peak = FanLimit
    /\ fan.map0 # {}
    /\ \E s \in fan.map : s.txn_count > 2
    /\ Cardinality(fan.map) = 2

\* C35: WithTx commits if and only if the scope function returns nil; if the
\* scope returns an error it rolls back and returns that same error unchanged; if
\* the scope panics it rolls back and re-raises the panic; nothing the scope
\* wrote is visible after a rollback.
C35_WithTx ==
    /\ [][\A c \in Calls :
             LET k == call[c]
                 n == call'[c]
                 pid == k.req.product_id
                 applied == /\ orders' = orders \cup {k.txOrder}
                            /\ products' = [products EXCEPT ![pid] = k.txProduct] IN
             (k.pc \in TxPcs /\ n.pc \notin TxPcs)
                => /\ (k.pc = "updated" /\ n.err = ErrNil) => applied /\ n.ret = ErrNil
                   /\ ~(k.pc = "updated" /\ n.err = ErrNil)
                         => UNCHANGED <<products, orders>>
                   /\ (k.pc # "updated" /\ n.pc = "done") => n.ret = n.err /\ n.err # ErrNil
                   /\ n.pc = "panicked" => n.ret = PanicValue
                   /\ \A p \in DOMAIN rowLock : rowLock'[p] # c]_vars
    /\ [](\A c \in Calls :
             (call[c].pc \in {"done", "panicked"} /\ call[c].err # ErrNil)
                => \A o \in orders : o.id # c)

\* one call's scope panicked after it had inserted its order and nothing of it
\* is stored, the other call's scope returned nil and its writes are stored
C35_Witness ==
    /\ \E c \in Calls : call[c].pc = "panicked" /\ call[c].at = "inserted"
    /\ \E c \in Calls : /\ call[c].pc = "done" /\ call[c].at = "updated"
                         /\ call[c].err = ErrNil
    /\ Cardinality(orders) = 1
    /\ products # initial

\* C36: ListOrders(limit, offset) queries storage with limit clamped to
\* [1, 100] (10 when no limit is given) and with a negative offset replaced by 0,
\* and returns the orders most-recent-first.
C36_ListOrdersClamped ==
    listing.pc = "done"
       => /\ listing.queryLimit = IF listing.limit = 0 THEN DefaultListLimit
                                  ELSE IF listing.limit < 1 THEN 1
                                  ELSE IF listing.limit > MaxListLimit THEN MaxListLimit
                                  ELSE listing.limit
          /\ listing.queryOffset = IF listing.offset < 0 THEN 0 ELSE listing.offset
          /\ \A i, k \in 1..Len(listing.orders) :
                i < k => listing.orders[i].created_at > listing.orders[k].created_at

\* the positions of processSettlementJob: the aggregator runs
AggregatorPcs == {"count", "progress0", "save", "upsert", "csv", "result"} \cup LoopPcs

\* C37: a job that was cancelled successfully while still QUEUED (before any
\* worker dequeued it) is never executed: no worker later runs the aggregator for
\* it, no settlement row is upserted for it and no CSV is written for it.
C37_CancelledQueuedNeverRuns ==
    \A j \in 1..NumJobs :
        []((j \in cancelled /\ phase[j] = "queued" /\ jobs[j].status = JobStatusCancelled)
           => [](/\ proc[j].pc \notin AggregatorPcs
                 /\ j \notin committed
                 /\ ~csv[j].exists))

\* how many times job j occurs in the queue
InQueue(j) == Len(SelectSeq(jobQueue, LAMBDA x : x = j))

C39_QueueFullLeavesRow ==
    /\ [](\A j \in JobIDs :
             phase[j] = "full"
                => /\ jobs[j].status = JobStatusQueued
                   /\ InQueue(j) = 0
                   /\ proc[j] = NoProc
                   /\ j \notin committed
                   /\ ~csv[j].exists)
    /\ [][\A j \in JobIDs :
             /\ phase[j] = "full" => (phase'[j] = "full" /\ jobs'[j] = jobs[j])
             /\ (phase[j] # "full" /\ phase'[j] = "full")
                   => (~QueueHasRoom(jobQueue) /\ jobQueue' = jobQueue /\ jobs'[j] = jobs[j])]_vars

\* the submission of a job failed on the full queue; the jobs that filled the
\* queue have all been processed since, and the job's row is still QUEUED
C39_Witness ==
    \E j \in JobIDs :
        /\ phase[j] = "full"
        /\ jobs[j].status = JobStatusQueued
        /\ \A i \in JobIDs \ {j} : phase[i] = "processed"
        /\ jobQueue = <<>>
        /\ waiting = NumWorkers

\* C40: cancel on a job id that has no row in storage returns JobAlreadyCancelled
\* (not JobNotFound), triggers no cancellation handle and changes no state.
C40_CancelWithoutRow ==
    [][/\ \A j \in JobIDs :
             jobs[j] = NoJob
                => /\ cancelPending'[j] = 0
                   /\ ctxCancelled'[j] = ctxCancelled[j]
                   /\ j \notin cancelled'
                   /\ jobs'[j].status # JobStatusCancelled
       /\ ((\A j \in JobIDs : jobs[j] = NoJob) /\ lastCancel' # lastCancel)
             => /\ lastCancel' = ErrJobAlreadyCancelled
                /\ UNCHANGED <<jobs, phase, jobQueue, stop, cancelMap, ctxCancelled, proc,
                               waiting, cancelPending, cancelled, enqueued, ordVars, setVars>>]_vars

\* a cancel on an id without a row has returned JobAlreadyCancelled
C40_Witness ==
    /\ \A j \in JobIDs : jobs[j] = NoJob /\ phase[j] = "none"
    /\ lastCancel = ErrJobAlreadyCancelled
    /\ cancelled = {}
    /\ cancelMap = {}

====
